---- MODULE Spec2Model ----
(***************************************************************************)
(* pathable: pathlib-like paths over nested lookups, with a per-accessor   *)
(* LRU read cache.  Model of pathable/accessors.py, pathable/paths.py and  *)
(* pathable/parsers.py.                                                    *)
(*                                                                         *)
(* Encoding.  A Python str is a sequence of one-character strings.  A path *)
(* segment (LookupKey) is a record [t, s, i]: t = "str" with text s, or    *)
(* t = "int" with number i.  A Python value is a record [kind, id, s, i]:  *)
(* an int, a str, None, or a reference to a container object of the heap   *)
(* (dict, list or tuple).  Cached values are references, as in Python.     *)
(***************************************************************************)
EXTENDS Integers, Sequences, FiniteSets, TLC

\* ------------------------------------------------------------------ bounds
\* Longest segment sequence a path may hold.
MaxDepth == 2
\* Most entries the caches are let to hold; also the largest maxsize passed
\* to enable_cache.
MaxCached == 2
\* Longest run of consecutive read_value() calls that is counted.
MaxRun == 3
\* The most arguments of one constructor or joinpath call.
MaxArgs == 2
\* The longest path built from argument lists.
MaxParts == 4

\* ------------------------------------------------------- program constants
SEPARATOR == "/"
DefaultMaxsize == 128

\* ---------------------------------------------------------------- values
StrSeg(s) == [t |-> "str", s |-> s, i |-> 0]
IntSeg(n) == [t |-> "int", s |-> <<>>, i |-> n]
\* The absent argument of a bare `raise KeyError`.
NoArg == [t |-> "none", s |-> <<>>, i |-> 0]

IntVal(n) == [kind |-> "int", id |-> 0, s |-> <<>>, i |-> n]
StrVal(s) == [kind |-> "str", id |-> 0, s |-> s, i |-> 0]
Ref(id) == [kind |-> "ref", id |-> id, s |-> <<>>, i |-> 0]
NoneVal == [kind |-> "none", id |-> 0, s |-> <<>>, i |-> 0]
BoolVal(b) == [kind |-> "bool", id |-> 0, s |-> <<>>, i |-> IF b THEN 1 ELSE 0]

\* What a call did: returned val (or the key list keys), or raised exc(arg).
Return(v) == [ok |-> TRUE, val |-> v, keys |-> <<>>, exc |-> "", arg |-> NoArg]
ReturnKeys(ks) == [ok |-> TRUE, val |-> NoneVal, keys |-> ks, exc |-> "", arg |-> NoArg]
Raise(e, a) == [ok |-> FALSE, val |-> NoneVal, keys |-> <<>>, exc |-> e, arg |-> a]

\* ------------------------------------------------------ the backing store
\* resource = {"b": [5, "xy"], "a": {"b": 5, "a": (5,)}}
\* object 1 is the dict, 2 the list, 3 the inner dict, 4 the tuple.
\* keyed = {"a/b": 7, "a": resource["a"], "": 6} is object 5, a second
\* resource whose keys are not all canonical segments.
RootId == 1
ListId == 2
InnerId == 3
TupleId == 4
KeyedId == 5

InitHeap ==
  [id \in {RootId, ListId, InnerId, TupleId, KeyedId} |->
     CASE id = RootId ->
            [kind |-> "map",
             keys |-> <<StrSeg(<<"b">>), StrSeg(<<"a">>)>>,
             vals |-> <<Ref(ListId), Ref(InnerId)>>]
       [] id = ListId ->
            [kind |-> "list", keys |-> <<>>,
             vals |-> <<IntVal(5), StrVal(<<"x", "y">>)>>]
       [] id = InnerId ->
            [kind |-> "map",
             keys |-> <<StrSeg(<<"b">>), StrSeg(<<"a">>)>>,
             vals |-> <<IntVal(5), Ref(TupleId)>>]
       [] id = TupleId ->
            [kind |-> "tuple", keys |-> <<>>, vals |-> <<IntVal(5)>>]
       [] OTHER ->
            [kind |-> "map",
             keys |-> <<StrSeg(<<"a", "/", "b">>), StrSeg(<<"a">>), StrSeg(<<>>)>>,
             vals |-> <<IntVal(7), Ref(InnerId), IntVal(6)>>]]

\* Segments the client builds paths from.
Segs == {StrSeg(<<"a">>), StrSeg(<<"b">>), IntSeg(0), IntSeg(1), IntSeg(2), IntSeg(-1)}

\* --------------------------------------------------------------- parsers.py
Reverse(s) == [j \in 1..Len(s) |-> s[Len(s) + 1 - j]]

Contains(s, c) == \E j \in 1..Len(s) : s[j] = c

\* str.split(sep) for a one-character separator: the pieces between
\* separators, empty pieces included.
RECURSIVE SplitAcc(_, _, _, _)
SplitAcc(s, sep, piece, acc) ==
  IF s = <<>> THEN Append(acc, piece)
  ELSE IF Head(s) = sep THEN SplitAcc(Tail(s), sep, <<>>, Append(acc, piece))
  ELSE SplitAcc(Tail(s), sep, Append(piece, Head(s)), acc)

Split(s, sep) == SplitAcc(s, sep, <<>>, <<>>)

\* The inner loop of parse_parts: append the kept pieces of one string,
\* last piece first.
RECURSIVE AppendPieces(_, _)
AppendPieces(parsed, pieces) ==
  IF pieces = <<>> THEN parsed
  ELSE LET x == Head(pieces) IN
       AppendPieces(IF x # <<>> /\ x # <<".">> THEN Append(parsed, StrSeg(x)) ELSE parsed,
                    Tail(pieces))

\* The outer loop of parse_parts over reversed(parts); [ok, parts].
RECURSIVE ParseLoop(_, _, _)
ParseLoop(it, sep, parsed) ==
  IF it = <<>> THEN [ok |-> TRUE, parts |-> Reverse(parsed)]
  ELSE LET part == Head(it) IN
       CASE part.t = "none" -> ParseLoop(Tail(it), sep, parsed)
         [] part.t = "int" -> ParseLoop(Tail(it), sep, Append(parsed, part))
         [] part.t = "str" ->
              IF Contains(part.s, sep)
              THEN ParseLoop(Tail(it), sep,
                             AppendPieces(parsed, Reverse(Split(part.s, sep))))
              ELSE ParseLoop(Tail(it), sep,
                             IF part.s # <<>> /\ part.s # <<".">>
                             THEN Append(parsed, part) ELSE parsed)
         [] OTHER -> [ok |-> FALSE, parts |-> <<>>]

\* The parts are walked first to last instead of last to first.
parse_parts_forward(parts, sep) == ParseLoop(parts, sep, <<>>)

parse_parts(parts, sep) == ParseLoop(Reverse(parts), sep, <<>>)

\* ------------------------------------------------------------- accessors.py
\* isinstance(node, Subscriptable): dict, list, tuple and str have
\* __contains__, __getitem__ and __len__; int and None do not.
IsSubscriptable(node) == node.kind \in {"ref", "str"}

\* Python index i of a sequence of length n, as a 1-based position, or 0
\* when it raises IndexError.
SeqIndex(i, n) ==
  IF 0 <= i /\ i < n THEN i + 1
  ELSE IF i < 0 /\ -n <= i THEN n + i + 1
  ELSE 0

\* node[part]: [exc, val] with exc = "" when it returns val.
Subscript(h, node, part) ==
  IF node.kind = "ref" /\ h[node.id].kind = "map" THEN
    LET o == h[node.id] IN
    IF \E j \in 1..Len(o.keys) : o.keys[j] = part
    THEN [exc |-> "", val |-> o.vals[CHOOSE j \in 1..Len(o.keys) : o.keys[j] = part]]
    ELSE [exc |-> "KeyError", val |-> NoneVal]
  ELSE IF part.t # "int" THEN [exc |-> "TypeError", val |-> NoneVal]
  ELSE IF node.kind = "ref" THEN
    LET o == h[node.id]
        j == SeqIndex(part.i, Len(o.vals)) IN
    IF j = 0 THEN [exc |-> "IndexError", val |-> NoneVal]
    ELSE [exc |-> "", val |-> o.vals[j]]
  ELSE
    LET j == SeqIndex(part.i, Len(node.s)) IN
    IF j = 0 THEN [exc |-> "IndexError", val |-> NoneVal]
    ELSE [exc |-> "", val |-> StrVal(<<node.s[j]>>)]

\* SubscriptableAccessor._get_subnode
get_subnode(h, node, part) ==
  IF ~IsSubscriptable(node) THEN Raise("KeyError", part)
  ELSE LET r == Subscript(h, node, part) IN
       IF r.exc \in {"KeyError", "IndexError", "TypeError"}
       THEN Raise("KeyError", part)
       ELSE Return(r.val)

\* _get_node that blames the last segment of the path for any failure.
RECURSIVE get_node_blames_last(_, _, _)
get_node_blames_last(h, node, parts) ==
  IF parts = <<>> THEN Return(node)
  ELSE LET r == get_subnode(h, node, Head(parts)) IN
       IF r.ok THEN get_node_blames_last(h, r.val, Tail(parts))
       ELSE Raise("KeyError", parts[Len(parts)])

\* NodeAccessor._get_node
RECURSIVE get_node(_, _, _)
get_node(h, node, parts) ==
  IF parts = <<>> THEN Return(node)
  ELSE LET r == get_subnode(h, node, Head(parts)) IN
       IF r.ok THEN get_node(h, r.val, Tail(parts)) ELSE r

\* LookupAccessor._read_node
read_node(node) == node

IsMapping(h, node) == node.kind = "ref" /\ h[node.id].kind = "map"
IsList(h, node) == node.kind = "ref" /\ h[node.id].kind = "list"

\* len(node) for a node that has a length.
NodeLen(h, node) == IF node.kind = "ref" THEN Len(h[node.id].vals) ELSE Len(node.s)

\* LookupAccessor._is_traversable_node
is_traversable_node(h, node) == IsMapping(h, node) \/ IsList(h, node)

Last(s) == s[Len(s)]

\* The tail shared by LookupAccessor.keys and LookupAccessor.len.
LeafError(parts) == IF parts # <<>> THEN Raise("KeyError", Last(parts)) ELSE Raise("KeyError", NoArg)

\* keys() that numbers the elements of a list from 1.
accessor_keys_from_one(h, acc, parts) ==
  LET r == get_node(h, acc.node, parts) IN
  IF ~r.ok THEN r
  ELSE IF IsMapping(h, r.val) THEN ReturnKeys(h[r.val.id].keys)
  ELSE IF IsList(h, r.val) THEN ReturnKeys([j \in 1..NodeLen(h, r.val) |-> IntSeg(j)])
  ELSE LeafError(parts)

\* LookupAccessor.keys
accessor_keys(h, acc, parts) ==
  LET r == get_node(h, acc.node, parts) IN
  IF ~r.ok THEN r
  ELSE IF IsMapping(h, r.val) THEN ReturnKeys(h[r.val.id].keys)
  ELSE IF IsList(h, r.val) THEN ReturnKeys([j \in 1..NodeLen(h, r.val) |-> IntSeg(j - 1)])
  ELSE LeafError(parts)

\* LookupAccessor.len
accessor_len(h, acc, parts) ==
  LET r == get_node(h, acc.node, parts) IN
  IF ~r.ok THEN r
  ELSE IF IsMapping(h, r.val) THEN Return(IntVal(NodeLen(h, r.val)))
  ELSE IF IsList(h, r.val) THEN Return(IntVal(NodeLen(h, r.val)))
  ELSE LeafError(parts)

\* A validate that trusts the read cache: a cached path is taken to exist.
accessor_validate_cached(h, acc, parts) ==
  LET r == get_node(h, acc.node, parts) IN
  IF r.ok \/ (\E j \in 1..Len(acc.cache) : acc.cache[j].key = parts)
  THEN Return(NoneVal) ELSE r

\* NodeAccessor.validate
accessor_validate(h, acc, parts) ==
  LET r == get_node(h, acc.node, parts) IN
  IF r.ok THEN Return(NoneVal) ELSE r

\* A stat() dictionary {"type": ..., "length": ...}; length None is has |-> FALSE.
StatVal(type, has, length) ==
  [kind |-> "stat", id |-> 0, s |-> <<type, IF has THEN "int" ELSE "None">>, i |-> length]


\* stat() that knows mappings and lists only: None for any other node.
accessor_stat_containers_only(h, acc, parts) ==
  LET r == get_node(h, acc.node, parts) IN
  IF ~r.ok THEN Return(NoneVal)
  ELSE IF IsMapping(h, r.val) THEN Return(StatVal("mapping", TRUE, NodeLen(h, r.val)))
  ELSE IF IsList(h, r.val) THEN Return(StatVal("list", TRUE, NodeLen(h, r.val)))
  ELSE Return(NoneVal)

\* LookupAccessor.stat
accessor_stat(h, acc, parts) ==
  LET r == get_node(h, acc.node, parts) IN
  IF ~r.ok THEN Return(NoneVal)
  ELSE IF IsMapping(h, r.val) THEN Return(StatVal("mapping", TRUE, NodeLen(h, r.val)))
  ELSE IF IsList(h, r.val) THEN Return(StatVal("list", TRUE, NodeLen(h, r.val)))
  ELSE IF r.val.kind \in {"ref", "str"}
       THEN Return(StatVal(IF r.val.kind = "str" THEN "str" ELSE h[r.val.id].kind,
                           TRUE, NodeLen(h, r.val)))
  ELSE Return(StatVal(r.val.kind, FALSE, 0))

\* contains() that lets the KeyError of a missing parent through.
accessor_contains_raises(h, acc, parts, key) ==
  LET r == get_node(h, acc.node, parts) IN
  IF ~r.ok THEN r
  ELSE IF IsMapping(h, r.val)
       THEN Return(BoolVal(\E j \in 1..Len(h[r.val.id].keys) : h[r.val.id].keys[j] = key))
  ELSE IF IsList(h, r.val)
       THEN Return(BoolVal(key.t = "int" /\ 0 <= key.i /\ key.i < NodeLen(h, r.val)))
  ELSE Return(BoolVal(FALSE))

\* LookupAccessor.contains
accessor_contains(h, acc, parts, key) ==
  LET r == get_node(h, acc.node, parts) IN
  IF ~r.ok THEN Return(BoolVal(FALSE))
  ELSE IF IsMapping(h, r.val)
       THEN Return(BoolVal(\E j \in 1..Len(h[r.val.id].keys) : h[r.val.id].keys[j] = key))
  ELSE IF IsList(h, r.val)
       THEN Return(BoolVal(key.t = "int" /\ 0 <= key.i /\ key.i < NodeLen(h, r.val)))
  ELSE Return(BoolVal(FALSE))


\* require_child that takes any int for a child of a list.
accessor_require_child_any_int(h, acc, parts, key) ==
  LET r == get_node(h, acc.node, parts) IN
  IF ~r.ok THEN r
  ELSE IF IsMapping(h, r.val)
       THEN IF \E j \in 1..Len(h[r.val.id].keys) : h[r.val.id].keys[j] = key
            THEN Return(NoneVal) ELSE Raise("KeyError", key)
  ELSE IF IsList(h, r.val)
       THEN IF key.t = "int" THEN Return(NoneVal) ELSE Raise("KeyError", key)
  ELSE Raise("KeyError", key)

\* LookupAccessor.require_child
accessor_require_child(h, acc, parts, key) ==
  LET r == get_node(h, acc.node, parts) IN
  IF ~r.ok THEN r
  ELSE IF IsMapping(h, r.val)
       THEN IF \E j \in 1..Len(h[r.val.id].keys) : h[r.val.id].keys[j] = key
            THEN Return(NoneVal) ELSE Raise("KeyError", key)
  ELSE IF IsList(h, r.val)
       THEN IF key.t = "int" /\ 0 <= key.i /\ key.i < NodeLen(h, r.val)
            THEN Return(NoneVal) ELSE Raise("KeyError", key)
  ELSE Raise("KeyError", key)

\* NodeAccessor.is_traversable; LookupAccessor implements _get_subnode and
\* _is_traversable_node, so neither NotImplementedError branch is taken.
accessor_is_traversable(h, acc, parts) ==
  LET r == get_node(h, acc.node, parts) IN
  IF ~r.ok THEN Return(BoolVal(FALSE))
  ELSE Return(BoolVal(is_traversable_node(h, r.val)))


\* ------------------------------------------------------- the filesystem
\* The directory tree a PathAccessor walks, by absolute location (the names
\* from the filesystem root down):
\*   /d       directory, the base of the accessor
\*   /d/b     file "xy"
\*   /d/a     directory
\*   /d/a/b   file "5"
\*   /d/l     symbolic link to /d/a
\*   /b       file "out", outside the base
NameA == <<"a">>
NameB == <<"b">>
NameD == <<"d">>
NameL == <<"l">>
DotDot == <<".", ".">>

DiskDirs == {<<>>, <<NameD>>, <<NameD, NameA>>}
DiskFiles == {<<NameD, NameB>>, <<NameD, NameA, NameB>>, <<NameB>>}
DiskLinks == {<<NameD, NameL>>}

\* What the link at loc points to.
LinkTarget(loc) == <<NameD, NameA>>

\* The bytes of the file at loc.
FileBytes(loc) ==
  IF loc = <<NameD, NameB>> THEN <<"x", "y">>
  ELSE IF loc = <<NameD, NameA, NameB>> THEN <<"5">>
  ELSE <<"o", "u", "t">>

\* The names in the directory at loc, in the order the system lists them.
DirNames(loc) ==
  IF loc = <<>> THEN <<NameD, NameB>>
  ELSE IF loc = <<NameD>> THEN <<NameB, NameA, NameL>>
  ELSE <<NameB>>

DiskEntries == DiskDirs \cup DiskFiles \cup DiskLinks

\* Path resolution by the operating system: the location the components
\* lead to from loc, or ok = FALSE (ENOENT, ENOTDIR).  Links met on the way
\* are followed; the last component is followed when follow is TRUE.
RECURSIVE Locate(_, _, _)
Locate(loc, comps, follow) ==
  IF comps = <<>> THEN [ok |-> TRUE, loc |-> loc]
  ELSE IF loc \notin DiskDirs THEN [ok |-> FALSE, loc |-> loc]
  ELSE LET c == Head(comps)
           next == IF c = DotDot
                   THEN (IF loc = <<>> THEN loc ELSE SubSeq(loc, 1, Len(loc) - 1))
                   ELSE Append(loc, c)
           last == Len(comps) = 1
       IN
       IF next \notin DiskEntries THEN [ok |-> FALSE, loc |-> next]
       ELSE IF next \in DiskLinks /\ (follow \/ ~last)
            THEN Locate(LinkTarget(next), Tail(comps), follow)
       ELSE Locate(next, Tail(comps), follow)

\* A pathlib.Path value: its components.
PathVal(comps) == [kind |-> "path", id |-> 0, s |-> comps, i |-> 0]


\* ------------------------------------------------------------ PathAccessor
\* pathlib: node / part for a str part that has no "/" in it; "" and "."
\* add no component.
PathJoin(comps, s) == IF s = <<>> \/ s = <<".">> THEN comps ELSE Append(comps, s)

\* Path.exists(), Path.is_dir(): both follow links.
PathExists(comps) == Locate(<<>>, comps, TRUE).ok
PathIsDir(comps) ==
  LET r == Locate(<<>>, comps, TRUE) IN r.ok /\ r.loc \in DiskDirs

\* PathAccessor._get_subnode; node / part is a TypeError for an int part.
path_get_subnode(node, part) ==
  IF part.t # "str" THEN Raise("TypeError", NoArg)
  ELSE LET subnode == PathJoin(node.s, part.s) IN
       IF ~PathExists(subnode) THEN Raise("KeyError", part)
       ELSE Return(PathVal(subnode))

\* NodeAccessor._get_node over PathAccessor._get_subnode
RECURSIVE path_get_node(_, _)
path_get_node(node, parts) ==
  IF parts = <<>> THEN Return(node)
  ELSE LET r == path_get_subnode(node, Head(parts)) IN
       IF r.ok THEN path_get_node(r.val, Tail(parts)) ELSE r

\* node.joinpath(*parts): ok = FALSE when a part is not a str.
RECURSIVE JoinPath(_, _)
JoinPath(comps, parts) ==
  IF parts = <<>> THEN [ok |-> TRUE, comps |-> comps]
  ELSE IF Head(parts).t # "str" THEN [ok |-> FALSE, comps |-> comps]
  ELSE JoinPath(PathJoin(comps, Head(parts).s), Tail(parts))

\* The kind of the entry at loc itself: what lstat reports.
EntryKind(loc) ==
  IF loc \in DiskDirs THEN "dir" ELSE IF loc \in DiskLinks THEN "link" ELSE "file"

\* PathAccessor.stat: the st_* fields of the entry, links not followed,
\* told apart here by the file type in st_mode and by st_size.
path_stat(acc, parts) ==
  LET j == JoinPath(acc.node.s, parts) IN
  IF ~j.ok THEN Raise("TypeError", NoArg)
  ELSE LET r == Locate(<<>>, j.comps, FALSE) IN
       IF ~r.ok THEN Return(NoneVal)
       ELSE Return(StatVal(EntryKind(r.loc), TRUE,
                           IF r.loc \in DiskFiles THEN Len(FileBytes(r.loc)) ELSE 0))

\* subpath.iterdir(), and the except clause keys and len share.
IterDir(comps, parts) ==
  LET r == Locate(<<>>, comps, TRUE) IN
  IF r.ok /\ r.loc \in DiskDirs
  THEN ReturnKeys([j \in 1..Len(DirNames(r.loc)) |-> StrSeg(DirNames(r.loc)[j])])
  ELSE LeafError(parts)

\* PathAccessor.keys
path_keys(acc, parts) ==
  LET r == path_get_node(acc.node, parts) IN
  IF ~r.ok THEN r ELSE IterDir(r.val.s, parts)

\* PathAccessor.len
path_len(acc, parts) ==
  LET r == path_get_node(acc.node, parts) IN
  IF ~r.ok THEN r
  ELSE LET ks == IterDir(r.val.s, parts) IN
       IF ks.ok THEN Return(IntVal(Len(ks.keys))) ELSE ks

\* PathAccessor._is_traversable_node: S_ISDIR of lstat, links not followed.
path_is_traversable_node(node) ==
  LET r == Locate(<<>>, node.s, FALSE) IN r.ok /\ r.loc \in DiskDirs

\* PathAccessor.contains
path_contains(acc, parts, key) ==
  LET r == path_get_node(acc.node, parts) IN
  IF ~r.ok THEN (IF r.exc = "KeyError" THEN Return(BoolVal(FALSE)) ELSE r)
  ELSE IF key.t # "str" THEN Raise("TypeError", NoArg)
  ELSE Return(BoolVal(PathExists(PathJoin(r.val.s, key.s))))

\* PathAccessor.require_child
path_require_child(acc, parts, key) ==
  LET r == path_get_node(acc.node, parts) IN
  IF ~r.ok THEN r
  ELSE IF ~PathIsDir(r.val.s) THEN LeafError(parts)
  ELSE IF key.t # "str" THEN Raise("TypeError", NoArg)
  ELSE IF ~PathExists(PathJoin(r.val.s, key.s)) THEN Raise("KeyError", key)
  ELSE Return(NoneVal)

\* PathAccessor._read_node: node.read_bytes()
path_read_node(node) ==
  LET r == Locate(<<>>, node.s, TRUE) IN
  IF ~r.ok THEN Raise("FileNotFoundError", NoArg)
  ELSE IF r.loc \in DiskDirs THEN Raise("IsADirectoryError", NoArg)
  ELSE Return(StrVal(FileBytes(r.loc)))

\* PathAccessor.read
path_read(acc, parts) ==
  LET r == path_get_node(acc.node, parts) IN
  IF ~r.ok THEN r ELSE path_read_node(r.val)

\* NodeAccessor.validate, on a PathAccessor
path_validate(acc, parts) ==
  LET r == path_get_node(acc.node, parts) IN
  IF r.ok THEN Return(NoneVal) ELSE r

\* NodeAccessor.is_traversable, on a PathAccessor: only KeyError is caught.
path_is_traversable(acc, parts) ==
  LET r == path_get_node(acc.node, parts) IN
  IF ~r.ok THEN (IF r.exc = "KeyError" THEN Return(BoolVal(FALSE)) ELSE r)
  ELSE Return(BoolVal(path_is_traversable_node(r.val)))


\* -------------------------------------------------------- KeysOnlyAccessor
\* An accessor that defines stat, keys and len and nothing else:
\* _get_subnode, _is_traversable_node and _read_node are NodeAccessor's and
\* raise NotImplementedError.
NotImplemented == Raise("NotImplementedError", NoArg)

\* NodeAccessor._get_node over NodeAccessor._get_subnode
keysonly_get_node(node, parts) ==
  IF parts = <<>> THEN Return(node) ELSE NotImplemented

\* KeysOnlyAccessor.keys
keysonly_keys(acc, parts) ==
  IF parts # <<>> THEN Raise("KeyError", Last(parts))
  ELSE ReturnKeys(<<StrSeg(<<"a">>), StrSeg(<<"b">>)>>)

\* KeysOnlyAccessor.len
keysonly_len(acc, parts) ==
  LET ks == keysonly_keys(acc, parts) IN
  IF ks.ok THEN Return(IntVal(Len(ks.keys))) ELSE ks

\* KeysOnlyAccessor.stat
keysonly_stat(acc, parts) == Return(NoneVal)

\* The fallback of NodeAccessor.is_traversable: try keys(parts).
KeysFallback(ks) ==
  IF ks.ok THEN Return(BoolVal(TRUE))
  ELSE IF ks.exc \in {"KeyError", "IndexError", "TypeError", "NotImplementedError"}
       THEN Return(BoolVal(FALSE))
  ELSE ks

\* NodeAccessor.is_traversable, on a KeysOnlyAccessor
keysonly_is_traversable(acc, parts) ==
  LET r == keysonly_get_node(acc.node, parts) IN
  IF ~r.ok /\ r.exc = "KeyError" THEN Return(BoolVal(FALSE))
  ELSE KeysFallback(keysonly_keys(acc, parts))

\* NodeAccessor.contains, on a KeysOnlyAccessor: _get_node or _get_subnode
\* raises NotImplementedError and the answer is `key in self.keys(parts)`.
keysonly_contains(acc, parts, key) ==
  LET ks == keysonly_keys(acc, parts) IN
  IF ks.ok THEN Return(BoolVal(\E j \in 1..Len(ks.keys) : ks.keys[j] = key))
  ELSE IF ks.exc \in {"KeyError", "IndexError", "TypeError"} THEN Return(BoolVal(FALSE))
  ELSE ks

\* NodeAccessor.require_child, on a KeysOnlyAccessor
keysonly_require_child(acc, parts, key) ==
  LET ks == keysonly_keys(acc, parts) IN
  IF ~ks.ok THEN ks
  ELSE IF \E j \in 1..Len(ks.keys) : ks.keys[j] = key THEN Return(NoneVal)
  ELSE Raise("KeyError", key)

\* NodeAccessor.validate, on a KeysOnlyAccessor
keysonly_validate(acc, parts) ==
  LET r == keysonly_get_node(acc.node, parts) IN
  IF r.ok THEN Return(NoneVal) ELSE r

\* NodeAccessor.read, on a KeysOnlyAccessor: _read_node is not implemented.
keysonly_read(acc, parts) == NotImplemented

\* ------------------------------------------------------------ read cache
\* _cache_maxsize is an int or None.
MaxsizeNone == [none |-> TRUE, n |-> 0]
MaxsizeOf(n) == [none |-> FALSE, n |-> n]

\* CachedSubscriptableAccessor.__init__ (and NodeAccessor.__init__)
NewAccessor(node) ==
  [cls |-> "lookup",
   node |-> node,
   cache_enabled |-> TRUE,
   cache_maxsize |-> MaxsizeOf(DefaultMaxsize),
   cache |-> <<>>]

\* A clear_cache that drops nothing.
clear_cache_keeps(acc) == acc

\* CachedSubscriptableAccessor.clear_cache
clear_cache(acc) == [acc EXCEPT !.cache = <<>>]

\* A disable_cache that only lowers the flag.
disable_cache_keeps(acc) == [acc EXCEPT !.cache_enabled = FALSE]

\* CachedSubscriptableAccessor.disable_cache
disable_cache(acc) == [acc EXCEPT !.cache_enabled = FALSE, !.cache = <<>>]

\* CachedSubscriptableAccessor.enable_cache
enable_cache(acc, maxsize) ==
  [acc EXCEPT !.cache_enabled = TRUE, !.cache_maxsize = maxsize, !.cache = <<>>]

\* The OrderedDict _cache is the sequence of its entries [key, value],
\* oldest first.  Position of key, or 0.
CacheIndex(cache, key) ==
  IF \E j \in 1..Len(cache) : cache[j].key = key
  THEN CHOOSE j \in 1..Len(cache) : cache[j].key = key
  ELSE 0

CacheKeys(cache) == [j \in 1..Len(cache) |-> cache[j].key]

\* OrderedDict.move_to_end(key) for the entry at position j.
move_to_end(cache, j) ==
  SubSeq(cache, 1, j - 1) \o SubSeq(cache, j + 1, Len(cache)) \o <<cache[j]>>

\* OrderedDict.popitem(last=True): eviction from the wrong end.
RECURSIVE evict_newest(_, _)
evict_newest(cache, maxsize) ==
  IF Len(cache) > maxsize
  THEN IF cache = <<>> THEN [cache |-> cache, raised |-> TRUE]
       ELSE evict_newest(SubSeq(cache, 1, Len(cache) - 1), maxsize)
  ELSE [cache |-> cache, raised |-> FALSE]

\* The eviction loop of read: popitem(last=False) while over maxsize;
\* popitem on an empty OrderedDict raises KeyError('dictionary is empty').
RECURSIVE evict(_, _)
evict(cache, maxsize) ==
  IF Len(cache) > maxsize
  THEN IF cache = <<>> THEN [cache |-> cache, raised |-> TRUE]
       ELSE evict(Tail(cache), maxsize)
  ELSE [cache |-> cache, raised |-> FALSE]

DictEmpty == StrSeg(<<"dictionary is empty">>)

\* The test that sends read past the cache.
cache_bypassed(acc) == (~acc.cache_enabled) \/ acc.cache_maxsize = MaxsizeOf(0)

\* A hit that is checked against the backing structure: the value the
\* entry's key resolves to now.
cached_value_fresh(h, acc, j) ==
  LET r == get_node(h, acc.node, acc.cache[j].key) IN
  IF r.ok THEN r.val ELSE acc.cache[j].value

\* value = self._cache[key], for the entry at position j.
cached_value(h, acc, j) == acc.cache[j].value

\* A read that forgets to store what it resolved.
cache_insert_forgets(cache, key, value) == cache

\* self._cache[key] = value, for a key the cache does not hold.
cache_insert(cache, key, value) == Append(cache, [key |-> key, value |-> value])

\* CachedSubscriptableAccessor.read: the accessor afterwards, what the call
\* did, whether it walked the backing store (_get_node), and how many cache
\* entries it removed.
accessor_read(h, acc, parts) ==
  LET key == parts
      r == get_node(h, acc.node, parts)
      j == CacheIndex(acc.cache, key)
  IN
  IF cache_bypassed(acc) THEN
    [acc |-> acc, out |-> IF r.ok THEN Return(read_node(r.val)) ELSE r,
     traversed |-> TRUE, evicted |-> 0]
  ELSE IF j # 0 THEN
    [acc |-> [acc EXCEPT !.cache = move_to_end(acc.cache, j)],
     out |-> Return(cached_value(h, acc, j)), traversed |-> FALSE, evicted |-> 0]
  ELSE IF ~r.ok THEN
    [acc |-> acc, out |-> r, traversed |-> TRUE, evicted |-> 0]
  ELSE
    LET value == read_node(r.val)
        inserted == cache_insert(acc.cache, key, value)
    IN
    IF acc.cache_maxsize.none THEN
      [acc |-> [acc EXCEPT !.cache = inserted], out |-> Return(value),
       traversed |-> TRUE, evicted |-> 0]
    ELSE
      LET e == evict(inserted, acc.cache_maxsize.n) IN
      [acc |-> [acc EXCEPT !.cache = e.cache],
       out |-> IF e.raised THEN Raise("KeyError", DictEmpty) ELSE Return(value),
       traversed |-> TRUE, evicted |-> Len(inserted) - Len(e.cache)]


\* PathAccessor(path) and KeysOnlyAccessor(node): neither class has a read
\* cache, so the cache fields stay as they are here.
NewPathAccessor(path) ==
  [cls |-> "path", node |-> path, cache_enabled |-> FALSE,
   cache_maxsize |-> MaxsizeNone, cache |-> <<>>]
NewKeysOnlyAccessor(node) ==
  [cls |-> "keysonly", node |-> node, cache_enabled |-> FALSE,
   cache_maxsize |-> MaxsizeNone, cache |-> <<>>]

\* ------------------------------------------- calls through path.accessor
\* self.accessor.<method>(self.parts, ...): the method of the accessor's
\* class.
call_keys(h, acc, parts) ==
  CASE acc.cls = "path" -> path_keys(acc, parts)
    [] acc.cls = "keysonly" -> keysonly_keys(acc, parts)
    [] OTHER -> accessor_keys(h, acc, parts)

call_len(h, acc, parts) ==
  CASE acc.cls = "path" -> path_len(acc, parts)
    [] acc.cls = "keysonly" -> keysonly_len(acc, parts)
    [] OTHER -> accessor_len(h, acc, parts)

call_validate(h, acc, parts) ==
  CASE acc.cls = "path" -> path_validate(acc, parts)
    [] acc.cls = "keysonly" -> keysonly_validate(acc, parts)
    [] OTHER -> accessor_validate(h, acc, parts)

call_stat(h, acc, parts) ==
  CASE acc.cls = "path" -> path_stat(acc, parts)
    [] acc.cls = "keysonly" -> keysonly_stat(acc, parts)
    [] OTHER -> accessor_stat(h, acc, parts)


\* AccessorPath.exists
exists(h, acc, parts) ==
  LET s == call_stat(h, acc, parts) IN
  IF s.ok THEN Return(BoolVal(s.val # NoneVal)) ELSE s

call_is_traversable(h, acc, parts) ==
  CASE acc.cls = "path" -> path_is_traversable(acc, parts)
    [] acc.cls = "keysonly" -> keysonly_is_traversable(acc, parts)
    [] OTHER -> accessor_is_traversable(h, acc, parts)

call_contains(h, acc, parts, key) ==
  CASE acc.cls = "path" -> path_contains(acc, parts, key)
    [] acc.cls = "keysonly" -> keysonly_contains(acc, parts, key)
    [] OTHER -> accessor_contains(h, acc, parts, key)

call_require_child(h, acc, parts, key) ==
  CASE acc.cls = "path" -> path_require_child(acc, parts, key)
    [] acc.cls = "keysonly" -> keysonly_require_child(acc, parts, key)
    [] OTHER -> accessor_require_child(h, acc, parts, key)

\* A read that has no cache to go through.
Uncached(acc, out) == [acc |-> acc, out |-> out, traversed |-> TRUE, evicted |-> 0]

call_read(h, acc, parts) ==
  CASE acc.cls = "path" -> Uncached(acc, path_read(acc, parts))
    [] acc.cls = "keysonly" -> Uncached(acc, keysonly_read(acc, parts))
    [] OTHER -> accessor_read(h, acc, parts)

\* ----------------------------------------------------------------- paths.py
\* A path value of the receiver's class, and an os.PathLike object whose
\* __fspath__ returns s, as arguments.
PathArg(parts) == [t |-> "path", s |-> <<>>, i |-> 0, parts |-> parts]
PathLikeArg(s) == [t |-> "pathlike", s |-> s, i |-> 0]

\* BasePath._parse_args for path, str, int, None, bytes, os.PathLike, float,
\* tuple and list arguments: the parts of a path are spliced in, bytes are
\* decoded, an os.PathLike is replaced by its fspath, an unhashable argument
\* is a TypeError, every other one goes to parse_parts.
RECURSIVE CollectArgs(_, _)
CollectArgs(args, parts) ==
  IF args = <<>> THEN [ok |-> TRUE, parts |-> parts]
  ELSE LET a == Head(args) IN
       IF a.t = "path" THEN CollectArgs(Tail(args), parts \o a.parts)
       ELSE IF a.t \in {"bytes", "pathlike"}
         THEN CollectArgs(Tail(args), Append(parts, StrSeg(a.s)))
       ELSE IF a.t = "list" THEN [ok |-> FALSE, parts |-> <<>>]
       ELSE CollectArgs(Tail(args), Append(parts, a))

\* Unhashable arguments give the empty path instead of a TypeError.
parse_args_lenient(args, sep) ==
  LET c == CollectArgs(args, <<>>) IN
  IF c.ok THEN parse_parts(c.parts, sep) ELSE [ok |-> TRUE, parts |-> <<>>]

parse_args(args, sep) ==
  LET c == CollectArgs(args, <<>>) IN
  IF c.ok THEN parse_parts(c.parts, sep) ELSE c

\* str(n) of an int: its decimal digits, after "-" when negative.
DigitChars == <<"0", "1", "2", "3", "4", "5", "6", "7", "8", "9">>

RECURSIVE Digits(_)
Digits(n) ==
  IF n < 10 THEN <<DigitChars[n + 1]>>
  ELSE Append(Digits(n \div 10), DigitChars[(n % 10) + 1])

int_str(n) == IF n < 0 THEN <<"-">> \o Digits(-n) ELSE Digits(n)

\* BasePath._cparts: str(p) of every part.
cparts(parts) ==
  [j \in 1..Len(parts) |-> IF parts[j].t = "int" THEN int_str(parts[j].i) ELSE parts[j].s]

\* str.join: the strings with sep between them.
RECURSIVE StrJoin(_, _)
StrJoin(sep, strs) ==
  IF strs = <<>> THEN <<>>
  ELSE IF Len(strs) = 1 THEN strs[1]
  ELSE strs[1] \o <<sep>> \o StrJoin(sep, Tail(strs))

\* The parts are rendered last to first.
path_str_reversed(path) == StrJoin(path.separator, Reverse(cparts(path.parts)))

\* BasePath.__str__
path_str(path) == StrJoin(path.separator, cparts(path.parts))

\* ord(c) of the characters that occur in separators, segment texts and
\* type names.
Ord(c) ==
  CASE c = "-" -> 45 [] c = "." -> 46 [] c = "/" -> 47
    [] c = "0" -> 48 [] c = "1" -> 49 [] c = "2" -> 50 [] c = "3" -> 51
    [] c = "4" -> 52 [] c = "5" -> 53 [] c = "6" -> 54 [] c = "7" -> 55
    [] c = "8" -> 56 [] c = "9" -> 57
    [] c = "a" -> 97 [] c = "b" -> 98 [] c = "i" -> 105 [] c = "l" -> 108
    [] c = "n" -> 110 [] c = "r" -> 114 [] c = "s" -> 115 [] c = "t" -> 116
    [] c = "u" -> 117

\* s < t of two str: at the first position where they differ the smaller
\* character decides; a proper prefix is smaller.
RECURSIVE str_lt(_, _)
str_lt(s, t) ==
  IF t = <<>> THEN FALSE
  ELSE IF s = <<>> THEN TRUE
  ELSE IF Head(s) # Head(t) THEN Ord(Head(s)) < Ord(Head(t))
  ELSE str_lt(Tail(s), Tail(t))

\* f"{type(p).__module__}.{type(p).__qualname__}"
type_name(p) ==
  <<"b", "u", "i", "l", "t", "i", "n", "s", ".">>
    \o (IF p.t = "int" THEN <<"i", "n", "t">> ELSE <<"s", "t", "r">>)

\* The comparison key without the type names.
cmp_parts_untyped(parts) ==
  [j \in 1..Len(parts) |-> <<<<>>, cparts(parts)[j]>>]

\* BasePath._cmp_parts: (type name, text) of every part.
cmp_parts(parts) ==
  [j \in 1..Len(parts) |-> <<type_name(parts[j]), cparts(parts)[j]>>]

\* p < q of two (type name, text) pairs.
pair_lt(p, q) == IF p[1] # q[1] THEN str_lt(p[1], q[1]) ELSE str_lt(p[2], q[2])

\* ps < qs of two tuples of pairs.
RECURSIVE tuple_lt(_, _)
tuple_lt(ps, qs) ==
  IF qs = <<>> THEN FALSE
  ELSE IF ps = <<>> THEN TRUE
  ELSE IF Head(ps) # Head(qs) THEN pair_lt(Head(ps), Head(qs))
  ELSE tuple_lt(Tail(ps), Tail(qs))

\* BasePath.__eq__
path_eq(a, b) == a.separator = b.separator /\ a.parts = b.parts

\* BasePath.__lt__
path_lt(a, b) ==
  IF a.separator # b.separator THEN str_lt(<<a.separator>>, <<b.separator>>)
  ELSE tuple_lt(cmp_parts(a.parts), cmp_parts(b.parts))

\* BasePath.__le__
path_le(a, b) ==
  IF a.separator # b.separator THEN str_lt(<<a.separator>>, <<b.separator>>)
  ELSE \/ cmp_parts(a.parts) = cmp_parts(b.parts)
       \/ tuple_lt(cmp_parts(a.parts), cmp_parts(b.parts))

\* BasePath.__gt__
path_gt(a, b) ==
  IF a.separator # b.separator THEN str_lt(<<b.separator>>, <<a.separator>>)
  ELSE tuple_lt(cmp_parts(b.parts), cmp_parts(a.parts))

\* BasePath.__ge__
path_ge(a, b) ==
  IF a.separator # b.separator THEN str_lt(<<b.separator>>, <<a.separator>>)
  ELSE \/ cmp_parts(a.parts) = cmp_parts(b.parts)
       \/ tuple_lt(cmp_parts(b.parts), cmp_parts(a.parts))

\* A derived path bound to the first accessor created instead of the
\* receiver's.
clone_rebinds(path, parts) ==
  [accessor |-> 1, parts |-> parts, separator |-> path.separator]

\* AccessorPath._clone_with_parts
clone_with_parts(path, parts) ==
  [accessor |-> path.accessor, parts |-> parts, separator |-> path.separator]

\* A path operation's result: the new path, or the exception raised.
PathOk(path) == [ok |-> TRUE, path |-> path, exc |-> ""]
PathRaise(path, e) == [ok |-> FALSE, path |-> path, exc |-> e]

\* BasePath._make_child
make_child(path, args) ==
  LET p == parse_args(args, path.separator) IN
  IF p.ok THEN PathOk(clone_with_parts(path, path.parts \o p.parts))
  ELSE PathRaise(path, "TypeError")

\* BasePath._make_child_relpath
make_child_relpath(path, part) == clone_with_parts(path, Append(path.parts, part))

\* BasePath.parent
parent(path) ==
  IF path.parts = <<>> THEN path
  ELSE clone_with_parts(path, SubSeq(path.parts, 1, Len(path.parts) - 1))

\* The nearest ancestor is left out.
parents_from_second(path) ==
  [i \in 1..(Len(path.parts) - 1) |->
     clone_with_parts(path, SubSeq(path.parts, 1, Len(path.parts) - i - 1))]

\* BasePath.parents: parts[:-i] for i = 1 .. len(parts).
parents(path) ==
  [i \in 1..Len(path.parts) |->
     clone_with_parts(path, SubSeq(path.parts, 1, Len(path.parts) - i))]

\* BasePath.name
path_name(path) == IF path.parts = <<>> THEN <<>> ELSE cparts(path.parts)[Len(path.parts)]

\* str.rfind("."): the last position of a dot, counted from 0; -1 without.
rfind_dot(s) ==
  IF \E j \in 1..Len(s) : s[j] = "."
  THEN (CHOOSE j \in 1..Len(s) : s[j] = "." /\ \A k \in (j + 1)..Len(s) : s[k] # ".") - 1
  ELSE -1

\* BasePath._split_stem_suffix
split_stem_suffix(n) ==
  IF n \in {<<>>, <<".">>, <<".", ".">>} THEN <<n, <<>>>>
  ELSE LET dot == rfind_dot(n) IN
       IF dot <= 0 THEN <<n, <<>>>>
       ELSE <<SubSeq(n, 1, dot), SubSeq(n, dot + 1, Len(n))>>

\* BasePath.stem
path_stem(path) == split_stem_suffix(path_name(path))[1]

\* The empty path is given the name as its only segment.
with_name_on_empty(path, name) ==
  IF name.t # "str" THEN PathRaise(path, "TypeError")
  ELSE IF name.s = <<>> THEN PathRaise(path, "ValueError")
  ELSE IF Contains(name.s, path.separator) THEN PathRaise(path, "ValueError")
  ELSE PathOk(clone_with_parts(path,
                Append(SubSeq(path.parts, 1, Len(path.parts) - 1), name)))

\* BasePath.with_name
with_name(path, name) ==
  IF path.parts = <<>> THEN PathRaise(path, "ValueError")
  ELSE IF name.t # "str" THEN PathRaise(path, "TypeError")
  ELSE IF name.s = <<>> THEN PathRaise(path, "ValueError")
  ELSE IF Contains(name.s, path.separator) THEN PathRaise(path, "ValueError")
  ELSE PathOk(clone_with_parts(path,
                Append(SubSeq(path.parts, 1, Len(path.parts) - 1), name)))

\* BasePath.with_suffix
with_suffix(path, suffix) ==
  IF path.parts = <<>> THEN PathRaise(path, "ValueError")
  ELSE IF suffix.t # "str" THEN PathRaise(path, "TypeError")
  ELSE IF suffix.s # <<>> /\ Head(suffix.s) # "." THEN PathRaise(path, "ValueError")
  ELSE IF path_name(path) \in {<<>>, <<".">>, <<".", ".">>} THEN PathRaise(path, "ValueError")
  ELSE with_name(path, StrSeg(path_stem(path) \o suffix.s))

\* Only the lengths are compared.
is_relative_to_by_length(path, other) ==
  LET p == parse_args(other, path.separator) IN
  IF ~p.ok THEN [ok |-> FALSE, val |-> FALSE]
  ELSE [ok |-> TRUE, val |-> Len(p.parts) <= Len(path.parts)]

\* BasePath.is_relative_to, for already parsed arguments
is_relative_to(path, other) ==
  LET p == parse_args(other, path.separator) IN
  IF ~p.ok THEN [ok |-> FALSE, val |-> FALSE]
  ELSE IF Len(p.parts) > Len(path.parts) THEN [ok |-> TRUE, val |-> FALSE]
  ELSE [ok |-> TRUE, val |-> SubSeq(path.parts, 1, Len(p.parts)) = p.parts]

\* BasePath.relative_to
relative_to(path, other) ==
  LET p == parse_args(other, path.separator) IN
  IF ~p.ok THEN PathRaise(path, "TypeError")
  ELSE LET rel == is_relative_to(path, p.parts) IN
       IF ~rel.ok THEN PathRaise(path, "TypeError")
       ELSE IF ~rel.val THEN PathRaise(path, "ValueError")
       ELSE PathOk(clone_with_parts(path,
                     SubSeq(path.parts, Len(p.parts) + 1, Len(path.parts))))

\* ------------------------------------------------------------------ state
VARIABLES
  heap,       \* the container objects of the backing structure, by identity
  accessors,  \* the LookupAccessor instances created so far
  cur,        \* the LookupPath the client uses: [accessor, parts, separator]
  last,       \* the last call: [op, key, out, traversed, evicted, args]
  run         \* the current run of consecutive read_value() calls on cur

vars == <<heap, accessors, cur, last, run>>

Acc == accessors[cur.accessor]

Call(op, key, out, traversed, evicted) ==
  last' = [op |-> op, key |-> key, out |-> out, traversed |-> traversed,
           evicted |-> evicted, args |-> <<>>]

NoRun == [reads |-> 0, traversals |-> 0, cached |-> FALSE, ok |-> TRUE]

\* LookupPath.from_lookup(lookup): a fresh accessor and its root path.
RootPath(a) == [accessor |-> a, parts |-> <<>>, separator |-> SEPARATOR]

InitWith(acc) ==
  /\ heap = InitHeap
  /\ accessors = <<acc>>
  /\ cur = RootPath(1)
  /\ last = [op |-> "from_lookup", key |-> NoArg, out |-> Return(NoneVal),
             traversed |-> FALSE, evicted |-> 0, args |-> <<>>]
  /\ run = NoRun

\* Entries held by all the caches together.
RECURSIVE Cached(_)
Cached(accs) == IF accs = <<>> THEN 0 ELSE Len(Head(accs).cache) + Cached(Tail(accs))

\* ------------------------------------------------------ AccessorPath reads
\* AccessorPath.read_value
ReadValue ==
  LET r == call_read(heap, Acc, cur.parts)
      cont == last.op = "read_value"
      t == IF r.traversed THEN 1 ELSE 0
  IN
  /\ cont => run.reads < MaxRun
  /\ accessors' = [accessors EXCEPT ![cur.accessor] = r.acc]
  /\ Cached(accessors') <= MaxCached
  /\ Call("read_value", NoArg, r.out, r.traversed, r.evicted)
  /\ run' = IF cont
            THEN [run EXCEPT !.reads = @ + 1, !.traversals = @ + t, !.ok = @ /\ r.out.ok]
            ELSE [reads |-> 1, traversals |-> t,
                  cached |-> CacheIndex(Acc.cache, cur.parts) # 0, ok |-> r.out.ok]
  /\ UNCHANGED <<heap, cur>>

\* A call that only looks: nothing but its result is recorded.
Looks(op, key, out) ==
  /\ Call(op, key, out, TRUE, 0)
  /\ run' = NoRun
  /\ UNCHANGED <<heap, accessors, cur>>

\* AccessorPath.keys
Keys == Looks("keys", NoArg, call_keys(heap, Acc, cur.parts))

\* AccessorPath.__len__
PathLen == Looks("len", NoArg, call_len(heap, Acc, cur.parts))

\* accessor.validate(path.parts)
Validate == Looks("validate", NoArg, call_validate(heap, Acc, cur.parts))

\* AccessorPath.stat
Stat == Looks("stat", NoArg, call_stat(heap, Acc, cur.parts))


\* AccessorPath.exists
Exists == Looks("exists", NoArg, exists(heap, Acc, cur.parts))

\* AccessorPath.is_traversable
IsTraversable == Looks("is_traversable", NoArg, call_is_traversable(heap, Acc, cur.parts))

\* AccessorPath.__contains__
ContainsKey(key) == Looks("contains", key, call_contains(heap, Acc, cur.parts, key))

\* accessor.require_child(path.parts, key)
RequireChild(key) ==
  Looks("require_child", key, call_require_child(heap, Acc, cur.parts, key))

\* ---------------------------------------------------------- cache controls
Configure(op, acc) ==
  /\ accessors' = [accessors EXCEPT ![cur.accessor] = acc]
  /\ Call(op, NoArg, Return(NoneVal), FALSE, Len(Acc.cache) - Len(acc.cache))
  /\ run' = NoRun
  /\ UNCHANGED <<heap, cur>>

\* path.accessor.enable_cache(maxsize=maxsize)
EnableCache(maxsize) == Configure("enable_cache", enable_cache(Acc, maxsize))

\* path.accessor.disable_cache()
DisableCache == Configure("disable_cache", disable_cache(Acc))

\* path.accessor.clear_cache()
ClearCache == Configure("clear_cache", clear_cache(Acc))

\* ------------------------------------------------------------- derivations
Derive(op, key, res) ==
  /\ Len(res.path.parts) <= MaxDepth
  /\ cur' = res.path
  /\ Call(op, key, IF res.ok THEN Return(NoneVal) ELSE Raise(res.exc, NoArg), FALSE, 0)
  /\ run' = NoRun
  /\ UNCHANGED <<heap, accessors>>

\* BasePath.__truediv__: path / key
TrueDiv(key) == Derive("truediv", key, make_child(cur, <<key>>))

\* path.parent
Parent == Derive("parent", NoArg, PathOk(parent(cur)))

\* path.with_name(name)
WithName(name) == Derive("with_name", name, with_name(cur, name))

\* path.relative_to(other)
RelativeTo(other) == Derive("relative_to", other, relative_to(cur, <<other>>))

\* AccessorPath.__init__(path.accessor, *args, separator=path.separator):
\* the path built, or the TypeError of an argument.
init(path, args) ==
  LET p == parse_args(args, path.separator) IN
  IF p.ok THEN PathOk(clone_with_parts(path, p.parts))
  ELSE PathRaise(path, "TypeError")

\* AccessorPath._from_parts
from_parts(path, args) == init(path, args)

\* BasePath.joinpath
joinpath(path, other) == make_child(path, other)

\* A call that takes an argument list: the client goes on with the path it
\* returns, or keeps the one it had when the call raises.
WithArgs(op, args, res) ==
  /\ Len(res.path.parts) <= MaxParts
  /\ cur' = res.path
  /\ last' = [op |-> op, key |-> NoArg,
              out |-> IF res.ok THEN Return(NoneVal) ELSE Raise(res.exc, NoArg),
              traversed |-> FALSE, evicted |-> 0, args |-> args]
  /\ run' = NoRun
  /\ UNCHANGED <<heap, accessors>>

\* AccessorPath(accessor, *args) with the arguments at hand
Construct == WithArgs("construct", last.args, init(cur, last.args))

\* path.joinpath(*args) with the arguments at hand
Join == WithArgs("joinpath", last.args, joinpath(cur, last.args))

\* The path is built again from its own parts.
FromParts == WithArgs("from_parts", cur.parts, from_parts(cur, cur.parts))

\* AccessorPath(accessor, str(path), separator=path.separator): the path is
\* rendered and the string is parsed again; the rendered path is recorded as
\* the argument.
StrReparse ==
  WithArgs("str_reparse", <<PathArg(cur.parts)>>, init(cur, <<StrSeg(path_str(cur))>>))

\* A comparison of the path with the other path at hand: its result is
\* recorded, the paths stay.
Compares(op, val) ==
  /\ last' = [op |-> op, key |-> NoArg, out |-> Return(BoolVal(val)),
              traversed |-> FALSE, evicted |-> 0, args |-> last.args]
  /\ run' = NoRun
  /\ UNCHANGED <<heap, accessors, cur>>

\* path == other
Eq == Compares("eq", path_eq(cur, last.args[1]))

\* path < other
Lt == Compares("lt", path_lt(cur, last.args[1]))

\* path <= other
Le == Compares("le", path_le(cur, last.args[1]))

\* path > other
Gt == Compares("gt", path_gt(cur, last.args[1]))

\* path >= other
Ge == Compares("ge", path_ge(cur, last.args[1]))

\* The client picks the argument list of its next call.
TakeArgs(args) ==
  /\ last' = [op |-> "args", key |-> NoArg, out |-> Return(NoneVal),
              traversed |-> FALSE, evicted |-> 0, args |-> args]
  /\ run' = NoRun
  /\ UNCHANGED <<heap, accessors, cur>>

\* path.parents[i - 1]
ParentsAt(i) ==
  /\ i \in 1..Len(cur.parts)
  /\ Derive("parents", IntSeg(i - 1), PathOk(parents(cur)[i]))

\* path.with_suffix(suffix)
WithSuffix(suffix) == Derive("with_suffix", suffix, with_suffix(cur, suffix))

\* path.relative_to(*args) with the arguments at hand
RelativeToArgs == WithArgs("relative_to", last.args, relative_to(cur, last.args))

\* path.is_relative_to(*args) with the arguments at hand
IsRelativeTo ==
  \E r \in {is_relative_to(cur, last.args)} :
  /\ last' = [op |-> "is_relative_to", key |-> NoArg,
              out |-> IF r.ok THEN Return(BoolVal(r.val)) ELSE Raise("TypeError", NoArg),
              traversed |-> FALSE, evicted |-> 0, args |-> last.args]
  /\ run' = NoRun
  /\ UNCHANGED <<heap, accessors, cur>>

\* AccessorPath.__rtruediv__: key / path
RTrueDiv(key) == Derive("rtruediv", key, from_parts(cur, <<key>> \o cur.parts))

\* AccessorPath.__iter__: one of the child paths it yields.
Iterate ==
  LET ks == call_keys(heap, Acc, cur.parts) IN
  /\ ks.ok
  /\ \E j \in 1..Len(ks.keys) :
       Derive("iter", ks.keys[j], PathOk(make_child_relpath(cur, ks.keys[j])))


\* AccessorPath.__floordiv__: require_child, then self / key.
floordiv(h, acc, path, key) ==
  LET r == call_require_child(h, acc, path.parts, key)
      c == make_child(path, <<key>>)
  IN
  IF ~r.ok THEN [out |-> r, path |-> path]
  ELSE IF ~c.ok THEN [out |-> Raise(c.exc, NoArg), path |-> path]
  ELSE [out |-> Return(NoneVal), path |-> c.path]

\* path // key
FloorDiv(key) ==
  \E f \in {floordiv(heap, Acc, cur, key)} :
  /\ Len(f.path.parts) <= MaxDepth
  /\ cur' = f.path
  /\ Call("floordiv", key, f.out, TRUE, 0)
  /\ run' = NoRun
  /\ UNCHANGED <<heap, accessors>>

\* AccessorPath.__getitem__: (self // key).read_value()
getitem(h, acc, path, key) ==
  LET f == floordiv(h, acc, path, key) IN
  IF ~f.out.ok THEN Uncached(acc, f.out) ELSE call_read(h, acc, f.path.parts)

\* path[key]
GetItem(key) ==
  \E g \in {getitem(heap, Acc, cur, key)} :
  /\ accessors' = [accessors EXCEPT ![cur.accessor] = g.acc]
  /\ Cached(accessors') <= MaxCached
  /\ Call("getitem", key, g.out, g.traversed, g.evicted)
  /\ run' = NoRun
  /\ UNCHANGED <<heap, cur>>

\* AccessorPath.get: self[key], default on KeyError.
get(h, acc, path, key, default) ==
  [getitem(h, acc, path, key) EXCEPT
     !.out = IF ~@.ok /\ @.exc = "KeyError" THEN Return(default) ELSE @]

\* The default handed to get.
Default == StrVal(<<"d", "f", "l", "t">>)

\* path.get(key, Default)
Get(key) ==
  \E g \in {get(heap, Acc, cur, key, Default)} :
  /\ accessors' = [accessors EXCEPT ![cur.accessor] = g.acc]
  /\ Cached(accessors') <= MaxCached
  /\ Call("get", key, g.out, g.traversed, g.evicted)
  /\ run' = NoRun
  /\ UNCHANGED <<heap, cur>>

\* The client goes back to the path from_lookup returned for accessor a.
UseRoot(a) ==
  /\ a \in 1..Len(accessors)
  /\ cur' = RootPath(a)
  /\ Call("from_lookup", NoArg, Return(NoneVal), FALSE, 0)
  /\ run' = NoRun
  /\ UNCHANGED <<heap, accessors>>

\* The accessor instances of the two paths p1 and p2 that the client builds
\* over one resource.
Instances == {1, 2}

\* LookupPath.from_lookup(lookup, *args)
FromLookup(lookup, args) ==
  LET a == Len(accessors) + 1
      p == parse_args(args, SEPARATOR)
  IN
  /\ a \in Instances
  /\ p.ok
  /\ Len(p.parts) <= MaxDepth
  /\ accessors' = Append(accessors, NewAccessor(lookup))
  /\ cur' = [accessor |-> a, parts |-> p.parts, separator |-> SEPARATOR]
  /\ Call("from_lookup", NoArg, Return(NoneVal), FALSE, 0)
  /\ run' = NoRun
  /\ UNCHANGED heap

\* dict.__setitem__: d[key] = v replaces the value of a key d has and
\* appends a key it has not.
setitem(h, id, key, v) ==
  LET o == h[id] IN
  IF \E j \in 1..Len(o.keys) : o.keys[j] = key
  THEN [h EXCEPT ![id].vals[CHOOSE j \in 1..Len(o.keys) : o.keys[j] = key] = v]
  ELSE [h EXCEPT ![id].keys = Append(@, key), ![id].vals = Append(@, v)]

\* The owner of the backing structure stores v under key in dict id.
Mutate(id, key, v) ==
  /\ heap[id].kind = "map"
  /\ heap' = setitem(heap, id, key, v)
  /\ heap' # heap
  /\ Call("setitem", key, Return(NoneVal), FALSE, 0)
  /\ run' = NoRun
  /\ UNCHANGED <<accessors, cur>>

\* --------------------------------------------------------- specifications
\* maxsize arguments of enable_cache: None, and the integers from -1 up.
MaxsizeArgs == {MaxsizeNone} \cup {MaxsizeOf(n) : n \in -1..MaxCached}

\* Keys of the paths whose reads are cached: a/b = 5, a/a = (5,), b/0 = 5;
\* 0 is no key of the root.
CacheSegs == {StrSeg(<<"a">>), StrSeg(<<"b">>), IntSeg(0)}

\* One path built by LookupPath.from_lookup(resource); reads and cache
\* controls on its accessor.
Init == InitWith(NewAccessor(Ref(RootId)))

Next ==
  \/ ReadValue
  \/ \E m \in MaxsizeArgs : EnableCache(m)
  \/ DisableCache
  \/ ClearCache
  \/ \E k \in CacheSegs : TrueDiv(k)
  \/ Parent

Spec == Init /\ [][Next]_vars

\* The roots a lookup path is built over: the dict, its list, a str.
Lookups == {Ref(RootId), Ref(ListId), StrVal(<<"x", "y">>)}

\* Traversal of every path over Segs, after accessor.disable_cache().
InitLookup == \E lookup \in Lookups : InitWith(disable_cache(NewAccessor(lookup)))

NextLookup ==
  \/ ReadValue
  \/ Keys
  \/ PathLen
  \/ Validate
  \/ Stat
  \/ Exists
  \/ IsTraversable
  \/ \E k \in Segs : ContainsKey(k)
  \/ \E k \in Segs : RequireChild(k)
  \/ \E k \in Segs : TrueDiv(k)
  \/ Parent

SpecLookup == InitLookup /\ [][NextLookup]_vars

\* Two paths built by from_lookup over the same resource, and the paths
\* derived from them.
ShareSegs == {StrSeg(<<"a">>), StrSeg(<<"b">>)}

NextShare ==
  \/ ReadValue
  \/ FromLookup(Ref(RootId), <<>>)
  \/ \E a \in Instances : UseRoot(a)
  \/ \E k \in ShareSegs : TrueDiv(k)
  \/ Parent
  \/ WithName(StrSeg(<<"b">>))
  \/ RelativeTo(StrSeg(<<"a">>))
  \/ Iterate

SpecShare == Init /\ [][NextShare]_vars

\* The backing structure is changed under a caching accessor.
MutVals == {IntVal(6)}
\* resource["a"] = 6 and resource["a"]["b"] = 6
MutSlots == {<<RootId, StrSeg(<<"a">>)>>, <<InnerId, StrSeg(<<"b">>)>>}

NextMut ==
  \/ ReadValue
  \/ Keys
  \/ PathLen
  \/ Validate
  \/ Stat
  \/ IsTraversable
  \/ \E k \in ShareSegs : ContainsKey(k)
  \/ \E k \in ShareSegs : RequireChild(k)
  \/ ClearCache
  \/ \E k \in CacheSegs : TrueDiv(k)
  \/ Parent
  \/ \E s \in MutSlots, v \in MutVals : Mutate(s[1], s[2], v)

SpecMut == Init /\ [][NextMut]_vars


\* The accessors of the three classes: a lookup accessor over each of the
\* two resources with its cache disabled, a PathAccessor over the directory /d and one
\* over the file /d/b, and a KeysOnlyAccessor.
Accessors ==
  {disable_cache(NewAccessor(Ref(RootId))),
   disable_cache(NewAccessor(Ref(KeyedId))),
   NewPathAccessor(PathVal(<<NameD>>)),
   NewPathAccessor(PathVal(<<NameD, NameB>>)),
   NewKeysOnlyAccessor(Ref(RootId))}

\* Segments of the paths over them.
ClassSegs ==
  {StrSeg(NameA), StrSeg(NameB), StrSeg(NameL), StrSeg(DotDot), IntSeg(0), IntSeg(-1)}
\* Keys handed to contains, require_child, //, [] and get: these, "", "."
\* and "a/b".
ClassKeys == ClassSegs \cup {StrSeg(<<>>), StrSeg(<<".">>), StrSeg(<<"a", "/", "b">>)}

InitClasses == \E acc \in Accessors : InitWith(acc)

NextClasses ==
  \/ ReadValue
  \/ Keys
  \/ PathLen
  \/ Validate
  \/ Stat
  \/ Exists
  \/ IsTraversable
  \/ \E k \in ClassKeys : ContainsKey(k)
  \/ \E k \in ClassKeys : RequireChild(k)
  \/ \E k \in ClassSegs : TrueDiv(k)
  \/ \E k \in ClassKeys : FloorDiv(k)
  \/ \E k \in ClassKeys : GetItem(k)
  \/ \E k \in ClassKeys : Get(k)
  \/ Parent

SpecClasses == InitClasses /\ [][NextClasses]_vars

\* Canonicalization of argument lists.  The strings handed to the
\* constructor: with and without separators, with leading, trailing and
\* doubled separators, with "." and ".." tokens and a dot inside a name.
ParseStrs ==
  { <<>>, <<".">>, <<"a">>, <<"/">>, <<"a", "/", "b">>, <<"a", "/", "/", "b">>,
    <<".", "/", "a">>, <<"/", "a", "/">>, <<"a", "/", ".", "/", "b">>,
    <<".", ".">>, <<"a", ".", "b">>, <<"b", "/">> }

NoneArg == NoArg
BytesArg(s) == [t |-> "bytes", s |-> s, i |-> 0]
FloatArg == [t |-> "float", s |-> <<>>, i |-> 0]
TupleArg == [t |-> "tuple", s |-> <<>>, i |-> 0]
ListArg == [t |-> "list", s |-> <<>>, i |-> 0]

ParseArgs ==
  {StrSeg(s) : s \in ParseStrs}
    \cup {IntSeg(0), IntSeg(-1), NoneArg, BytesArg(<<"a", "/", "b">>),
          PathLikeArg(<<"b", "/", "a">>), FloatArg, TupleArg, ListArg,
          PathArg(<<>>), PathArg(<<StrSeg(<<"a">>), IntSeg(0)>>)}

ArgLists == UNION {[1..n -> ParseArgs] : n \in 0..MaxArgs}

\* The client holds an argument list; it hands it to the constructor and to
\* joinpath, divides by one argument, and rebuilds a path from its parts.
InitParse ==
  \E args \in ArgLists :
    /\ heap = InitHeap
    /\ accessors = <<NewAccessor(Ref(RootId))>>
    /\ cur = RootPath(1)
    /\ last = [op |-> "args", key |-> NoArg, out |-> Return(NoneVal),
               traversed |-> FALSE, evicted |-> 0, args |-> args]
    /\ run = NoRun

NextParse ==
  \/ Construct
  \/ Join
  \/ FromParts
  \/ StrReparse
  \/ \E j \in 1..Len(last.args) : TrueDiv(last.args[j])
  \/ \E j \in 1..Len(last.args) : RTrueDiv(last.args[j])

SpecParse == InitParse /\ [][NextParse]_vars

\* Comparison of two paths.  Their segments: the integers 0 and 10, the
\* strings "0" and "a"; their separators: "/" and ".".
OrderSegs == {IntSeg(0), IntSeg(10), StrSeg(<<"0">>), StrSeg(<<"a">>)}

OrderPaths ==
  {[accessor |-> 1, parts |-> parts, separator |-> sep] :
     parts \in UNION {[1..n -> OrderSegs] : n \in 0..MaxDepth},
     sep \in {SEPARATOR, "."}}

\* The client holds two paths and compares the first with the second.
InitOrder ==
  \E a \in OrderPaths, b \in OrderPaths :
    /\ heap = InitHeap
    /\ accessors = <<NewAccessor(Ref(RootId))>>
    /\ cur = a
    /\ last = [op |-> "args", key |-> NoArg, out |-> Return(NoneVal),
               traversed |-> FALSE, evicted |-> 0, args |-> <<b>>]
    /\ run = NoRun

NextOrder ==
  \/ Eq
  \/ Lt
  \/ Le
  \/ Gt
  \/ Ge

SpecOrder == InitOrder /\ [][NextOrder]_vars

\* Manipulation of one path.  The keys it is divided by, the names and
\* suffixes handed to with_name and with_suffix, and the argument lists
\* handed to relative_to and is_relative_to.
ManipSegs == {StrSeg(<<"a">>), StrSeg(<<"b">>), IntSeg(0), StrSeg(<<"b", ".", "c">>)}

ManipNames ==
  {StrSeg(<<"x">>), StrSeg(<<".">>), StrSeg(<<>>), StrSeg(<<"a", "/", "b">>), IntSeg(0)}

ManipSuffixes ==
  {StrSeg(<<".", "m", "d">>), StrSeg(<<>>), StrSeg(<<"m", "d">>), IntSeg(0)}

ManipArgLists ==
  { <<>>, <<StrSeg(<<>>)>>, <<StrSeg(<<".">>)>>, <<NoneArg>>,
    <<StrSeg(<<"a">>)>>, <<StrSeg(<<"b">>)>>, <<StrSeg(<<"a", "/", "b">>)>>,
    <<StrSeg(<<"a">>), StrSeg(<<"b">>)>>, <<IntSeg(0)>>, <<StrSeg(<<"0">>)>>,
    <<StrSeg(<<"a">>), IntSeg(0)>>, <<PathArg(<<StrSeg(<<"a">>)>>)>>,
    <<FloatArg>>, <<ListArg>> }

InitManip ==
  \E sep \in {SEPARATOR, "."} :
    /\ heap = InitHeap
    /\ accessors = <<NewAccessor(Ref(RootId))>>
    /\ cur = [accessor |-> 1, parts |-> <<>>, separator |-> sep]
    /\ last = [op |-> "from_lookup", key |-> NoArg, out |-> Return(NoneVal),
               traversed |-> FALSE, evicted |-> 0, args |-> <<>>]
    /\ run = NoRun

NextManip ==
  \/ \E k \in ManipSegs : TrueDiv(k)
  \/ \E k \in ManipSegs : RTrueDiv(k)
  \/ Parent
  \/ \E i \in 1..MaxDepth : ParentsAt(i)
  \/ \E n \in ManipNames : WithName(n)
  \/ \E s \in ManipSuffixes : WithSuffix(s)
  \/ \E args \in ManipArgLists : TakeArgs(args)
  \/ RelativeToArgs
  \/ IsRelativeTo

SpecManip == InitManip /\ [][NextManip]_vars

\* ------------------------------------------------------------ properties
\* The segments of parts that can be stepped into, one after the other,
\* from the accessor's root: the longest prefix that resolves.
Prefix(parts, n) == SubSeq(parts, 1, n)
ResolvesTo(n) == get_node(heap, Acc.node, Prefix(cur.parts, n))
Resolvable == ResolvesTo(Len(cur.parts)).ok
FirstBad == CHOOSE n \in 1..Len(cur.parts) :
              /\ ~ResolvesTo(n).ok
              /\ \A m \in 0..(n - 1) : ResolvesTo(m).ok
Traversals == {"read_value", "validate", "keys", "len"}

\* C1: read, validate, keys and len on a segment sequence that cannot be
\* fully resolved raise KeyError whose argument is the first (leftmost)
\* segment that could not be stepped into, not the last segment of the
\* path; a read of a sequence that resolves returns the node it resolves to.
C1_FirstFailingSegment ==
  /\ (last.op \in Traversals /\ ~Resolvable)
       => last.out = Raise("KeyError", cur.parts[FirstBad])
  /\ (last.op = "read_value" /\ Resolvable)
       => last.out = Return(ResolvesTo(Len(cur.parts)).val)

\* A read failed at a segment that is not the last one of its path.
C1_Witness ==
  /\ last.op = "read_value"
  /\ ~last.out.ok
  /\ Len(cur.parts) = 2
  /\ FirstBad = 1
  /\ cur.parts[1] # cur.parts[2]
  /\ last.out.arg = cur.parts[1]

\* Caching is on for the accessor: enabled, and maxsize is None or >= 1.
Caching(acc) ==
  acc.cache_enabled /\ (acc.cache_maxsize.none \/ acc.cache_maxsize.n >= 1)

\* C2: with caching enabled (maxsize >= 1, or unbounded), N consecutive
\* read_value() calls that return the value of the same path, the first of
\* them finding the path not yet cached, walk the backing store exactly
\* once; with caching disabled the same N calls walk it exactly N times.
C2_OneTraversalPerRun ==
  last.op = "read_value" =>
    /\ (Caching(Acc) /\ run.ok /\ ~run.cached) => run.traversals = 1
    /\ (Caching(Acc) /\ run.ok /\ run.cached) => run.traversals = 0
    /\ ~Acc.cache_enabled => run.traversals = run.reads

\* MaxRun reads of one uncached path, all served after one traversal.
C2_Witness ==
  /\ last.op = "read_value"
  /\ Caching(Acc)
  /\ run.ok
  /\ ~run.cached
  /\ run.reads = MaxRun
  /\ run.traversals = 1
  /\ Len(cur.parts) = 2

\* The step is a read_value() call through cur.
ReadStep == last'.op = "read_value"
\* The accessor of cur after the step (no read changes cur).
AccAfter == accessors'[cur.accessor]
\* The cache is consulted: enabled, and maxsize is not 0.
Consulted(acc) == acc.cache_enabled /\ acc.cache_maxsize # MaxsizeOf(0)

IsSuffix(s, all) == Len(s) <= Len(all) /\ s = SubSeq(all, Len(all) - Len(s) + 1, Len(all))
Min(a, b) == IF a < b THEN a ELSE b
Without(s, j) == SubSeq(s, 1, j - 1) \o SubSeq(s, j + 1, Len(s))

\* C3: the read cache is least-recently-used.  A hit returns the cached
\* value without a traversal and moves its entry to the most-recently-used
\* end, leaving every other entry in place.  A miss appends its entry; when
\* that pushes the cache over maxsize, the entries removed are the least
\* recently inserted-or-hit ones (what stays is the newest end of the old
\* order plus the new entry), and no more of them than maxsize demands.  With
\* maxsize = 1 a read of a path other than the cached one always traverses.
C3_LeastRecentlyUsed ==
  [][(ReadStep /\ Consulted(Acc)) =>
       LET old == Acc.cache
           new == AccAfter.cache
           j == CacheIndex(old, cur.parts)
           all == Append(old, [key |-> cur.parts, value |-> ResolvesTo(Len(cur.parts)).val])
       IN
       /\ j # 0 => /\ new = Append(Without(old, j), old[j])
                   /\ ~last'.traversed
                   /\ last'.out = Return(old[j].value)
                   /\ last'.evicted = 0
       /\ (j = 0 /\ Resolvable) =>
             /\ last'.traversed
             /\ IsSuffix(new, all)
             /\ last'.evicted = Len(all) - Len(new)
             /\ Acc.cache_maxsize.none => new = all
             /\ ~Acc.cache_maxsize.none => Len(new) >= Min(Len(all), Acc.cache_maxsize.n)
       /\ (j = 0 /\ ~Resolvable) => (new = old /\ last'.traversed)
       /\ (Acc.cache_maxsize = MaxsizeOf(1) /\ old # <<>> /\ old[1].key # cur.parts)
             => (last'.traversed /\ (Resolvable => CacheKeys(new) = <<cur.parts>>))
  ]_vars

\* With maxsize = 1, a read of one path has just evicted the entry of
\* another: the second half of an alternation of two paths.
C3_Witness ==
  /\ last.op = "read_value"
  /\ Acc.cache_maxsize = MaxsizeOf(1)
  /\ Acc.cache_enabled
  /\ last.traversed
  /\ last.evicted = 1
  /\ CacheKeys(Acc.cache) = <<cur.parts>>

\* C4: in every state reachable by read, enable_cache(maxsize),
\* disable_cache and clear_cache calls on one lookup accessor, the number of
\* cache entries never exceeds the configured maxsize, whenever maxsize is
\* not None.
C4_CacheWithinMaxsize ==
  \A a \in 1..Len(accessors) :
    ~accessors[a].cache_maxsize.none
      => Len(accessors[a].cache) <= accessors[a].cache_maxsize.n

\* The operations that derive a path from cur.
Derivations == {"truediv", "parent", "with_name", "relative_to", "iter"}

\* C5: the cache belongs to the accessor instance, not to the path.  Every
\* path derived by child, parent, with_name, relative_to or iteration is
\* bound to the receiver's accessor and the derivation leaves all caches
\* alone.  A read through any path is served from the cache exactly when the
\* cache of that path's own accessor holds an entry for its segments,
\* whichever path created the entry; what another accessor instance over the
\* same root has cached makes no difference, and a read leaves the other
\* instances' caches untouched.
C5_SharedPerAccessor ==
  [][/\ last'.op \in Derivations =>
          (cur'.accessor = cur.accessor /\ accessors' = accessors)
     /\ ReadStep =>
          /\ ~last'.traversed <=> CacheIndex(Acc.cache, cur.parts) # 0
          /\ (last'.traversed /\ last'.out.ok) =>
                CacheIndex(AccAfter.cache, cur.parts) # 0
          /\ \A a \in 1..Len(accessors) :
                a # cur.accessor => accessors'[a] = accessors[a]
  ]_vars

\* A read through a path of the second accessor traversed although the
\* first accessor, over the same root, had the same segments cached.
C5_Witness ==
  /\ Len(accessors) = 2
  /\ accessors[1].node = accessors[2].node
  /\ cur.accessor = 2
  /\ cur.parts # <<>>
  /\ last.op = "read_value"
  /\ last.traversed
  /\ CacheIndex(accessors[1].cache, cur.parts) # 0
  /\ CacheIndex(accessors[2].cache, cur.parts) # 0

\* The operations other than read_value that look at the node of cur.
LookOps == {"keys", "len", "stat", "contains", "require_child",
            "is_traversable", "validate"}
\* What cur resolves to in the backing structure as it is now.
Node == ResolvesTo(Len(cur.parts)).val
NotFound == Raise("KeyError", cur.parts[FirstBad])
\* The child of cur under key exists in the backing structure as it is now.
ChildResolves(key) == get_node(heap, Acc.node, Append(cur.parts, key)).ok

\* C6: keys, len, stat, contains, require_child, is_traversable and
\* validate leave every cache as it is, entries and recency order, and their
\* result is the one the backing structure gives at the time of the call,
\* whatever the cache holds for the path: validate succeeds exactly when the
\* path resolves now, stat is None exactly when it does not, keys and len
\* report the mapping as it is now and raise for a path that does not
\* resolve now, is_traversable tells whether the path resolves now to a
\* mapping or list, and contains and require_child (for str keys) succeed
\* exactly when the child resolves now.
C6_OnlyReadUsesCache ==
  [][last'.op \in LookOps =>
       LET out == last'.out
           key == last'.key
       IN
       /\ accessors' = accessors
       /\ last'.traversed
       /\ last'.op = "validate" =>
            out = (IF Resolvable THEN Return(NoneVal) ELSE NotFound)
       /\ last'.op = "stat" => (out = Return(NoneVal) <=> ~Resolvable)
       /\ last'.op \in {"keys", "len"} =>
            /\ ~Resolvable => out = NotFound
            /\ (Resolvable /\ IsMapping(heap, Node)) =>
                 out = (IF last'.op = "keys" THEN ReturnKeys(heap[Node.id].keys)
                        ELSE Return(IntVal(Len(heap[Node.id].keys))))
            /\ out.ok => Resolvable
       /\ last'.op = "is_traversable" =>
            out = Return(BoolVal(Resolvable /\ is_traversable_node(heap, Node)))
       /\ last'.op = "contains" => out = Return(BoolVal(ChildResolves(key)))
       /\ last'.op = "require_child" => (out.ok <=> ChildResolves(key))
  ]_vars

\* validate() raised for a path whose value the read cache still holds: the
\* backing structure changed after the read.
C6_Witness ==
  /\ last.op = "validate"
  /\ ~last.out.ok
  /\ CacheIndex(Acc.cache, cur.parts) # 0
  /\ Len(cur.parts) = 2

\* Reads go past the cache: it is disabled, or its maxsize is 0.
PassThrough(acc) == ~acc.cache_enabled \/ acc.cache_maxsize = MaxsizeOf(0)
\* What a traversal of cur finds in the backing structure as it is now.
Resolution == IF Resolvable THEN Return(Node) ELSE NotFound

\* C7: disable_cache() turns the enabled flag off and nothing but
\* enable_cache() turns it on again.  While the cache is disabled, and
\* while maxsize is 0, the cache holds no entry in any state and every read
\* traverses the backing structure, returns what the traversal finds and
\* stores nothing.  The accessor leaves this pass-through mode only by an
\* enable_cache call, one whose maxsize is not 0.
C7_PassThrough ==
  [][/\ last'.op = "disable_cache" => ~AccAfter.cache_enabled
     /\ (~Acc.cache_enabled /\ AccAfter.cache_enabled) => last'.op = "enable_cache"
     /\ PassThrough(AccAfter) => AccAfter.cache = <<>>
     /\ (PassThrough(Acc) /\ ReadStep) =>
          /\ last'.traversed
          /\ last'.out = Resolution
          /\ AccAfter = Acc
     /\ (PassThrough(Acc) /\ ~PassThrough(AccAfter)) =>
          /\ last'.op = "enable_cache"
          /\ AccAfter.cache_maxsize # MaxsizeOf(0)
  ]_vars

\* After disable_cache(), MaxRun reads of one path in a row have each
\* traversed and the cache is still empty.
C7_Witness ==
  /\ ~Acc.cache_enabled
  /\ last.op = "read_value"
  /\ last.out.ok
  /\ run.reads = MaxRun
  /\ run.traversals = MaxRun
  /\ Len(cur.parts) = 2
  /\ Acc.cache = <<>>

CacheControls == {"clear_cache", "disable_cache", "enable_cache"}

\* C8: clear_cache(), disable_cache() and enable_cache(maxsize) each leave
\* the cache without entries; deriving paths does not refill it, and a read
\* that finds the cache empty traverses the backing structure, so the first
\* read of a path after any of the three traverses again.  clear_cache()
\* leaves the enabled flag and maxsize as they were.
C8_ControlsEmptyCache ==
  [][/\ last'.op \in CacheControls => AccAfter.cache = <<>>
     /\ last'.op = "clear_cache" =>
          /\ AccAfter.cache_enabled = Acc.cache_enabled
          /\ AccAfter.cache_maxsize = Acc.cache_maxsize
     /\ last'.op \in Derivations => accessors' = accessors
     /\ (ReadStep /\ CacheIndex(Acc.cache, cur.parts) = 0) =>
          (last'.traversed /\ (Resolvable \/ last'.out = NotFound))
  ]_vars

\* clear_cache() has just dropped the entries of a cache that was enabled
\* with a maxsize other than the default, and the configuration is intact.
C8_Witness ==
  /\ last.op = "clear_cache"
  /\ last.evicted = MaxCached
  /\ Acc.cache = <<>>
  /\ Acc.cache_enabled
  /\ Acc.cache_maxsize = MaxsizeOf(MaxCached)

\* C9: a change of the backing structure leaves the cache as it is, as
\* does every call other than read_value and clear_cache; a read of a
\* cached path returns the value stored in its entry, without a traversal,
\* whatever the path resolves to now; clear_cache() empties the cache, and a
\* read that finds no entry for its path returns what the path resolves to
\* now.
C9_StaleUntilCleared ==
  [][/\ last'.op \notin {"read_value", "clear_cache"} => accessors' = accessors
     /\ last'.op = "clear_cache" => AccAfter.cache = <<>>
     /\ ReadStep =>
          LET j == CacheIndex(Acc.cache, cur.parts) IN
          /\ j # 0 => (~last'.traversed /\ last'.out = Return(Acc.cache[j].value))
          /\ j = 0 => (last'.traversed /\ last'.out = Resolution)
  ]_vars

\* A read has just returned a cached value that is no longer the value the
\* path resolves to.
C9_Witness ==
  /\ last.op = "read_value"
  /\ ~last.traversed
  /\ last.out.ok
  /\ Resolvable
  /\ last.out.val # Node
  /\ Len(cur.parts) = 2

\* A list or tuple of the backing structure.
IsSequence(h, node) == node.kind = "ref" /\ h[node.id].kind \in {"list", "tuple"}

\* Step n of cur is one the child-step rule admits: into a mapping by a key
\* it contains, or into a sequence by an integer i with 0 <= i < length.
StepAdmitted(n) ==
  LET node == ResolvesTo(n - 1).val
      seg == cur.parts[n]
  IN
  \/ /\ IsMapping(heap, node)
     /\ \E j \in 1..Len(heap[node.id].keys) : heap[node.id].keys[j] = seg
  \/ /\ IsSequence(heap, node)
     /\ seg.t = "int"
     /\ 0 <= seg.i
     /\ seg.i < NodeLen(heap, node)

\* C10: in a read through the lookup accessor, each child step from a node
\* that was reached succeeds exactly when the node is a mapping containing
\* the segment as a key, or a sequence and the segment an integer i with
\* 0 <= i < length; a step of any other kind (scalar or string node,
\* non-integer, out-of-range or negative index, missing key) makes the read
\* raise KeyError citing that segment.
C10_ChildStepExact ==
  last.op = "read_value" =>
    \A n \in 1..Len(cur.parts) :
      ResolvesTo(n - 1).ok =>
        /\ ResolvesTo(n).ok <=> StepAdmitted(n)
        /\ ~StepAdmitted(n) => last.out = Raise("KeyError", cur.parts[n])

\* keys(parts) as the accessor computes it for cur now.
KeysNow == accessor_keys(heap, Acc, cur.parts)

False == Return(BoolVal(FALSE))
True == Return(BoolVal(TRUE))

ContainsNow(key) == call_contains(heap, Acc, cur.parts, key)
ValidateNow == call_validate(heap, Acc, cur.parts)

\* C13 as stated: require_child returns normally exactly when contains is
\* true, and every failure is a KeyError citing the key.
C13_RequireChildCitesKey ==
  (last.op = "require_child" /\ Acc.cls \in {"lookup", "path"}) =>
    /\ last.out.ok <=> ContainsNow(last.key) = True
    /\ ~last.out.ok => last.out = Raise("KeyError", last.key)

\* The paths and keys of a filesystem path: str segments, and a key that
\* is a segment the parser lets through (not "" and not ".").
NamesOnly ==
  /\ \A n \in 1..Len(cur.parts) : cur.parts[n].t = "str"
  /\ last.key.t = "str"
  /\ last.key.s \notin {<<>>, <<".">>}

\* C13, amended: for the lookup accessor, and for the filesystem accessor
\* with str segments and a key that is a canonical segment, require_child
\* returns normally exactly when contains is true.  When it fails it raises
\* KeyError: citing the first segment of parts that does not resolve when
\* the parent path does not resolve (the error validate(parts) raises);
\* citing the last segment of parts (nothing for the root) when a
\* filesystem parent is not a directory; citing key in every other case.
C13_RequireChildAmended ==
  (last.op = "require_child"
     /\ (Acc.cls = "lookup" \/ (Acc.cls = "path" /\ NamesOnly))) =>
    /\ last.out.ok <=> ContainsNow(last.key) = True
    /\ ~last.out.ok =>
         IF ~ValidateNow.ok THEN last.out = ValidateNow /\ last.out.exc = "KeyError"
         ELSE IF Acc.cls = "path" /\ ~PathIsDir(path_get_node(Acc.node, cur.parts).val.s)
              THEN last.out = LeafError(cur.parts)
         ELSE last.out = Raise("KeyError", last.key)

\* require_child on a lookup path whose first segment is missing raised
\* KeyError citing that segment, not the key.
C13_Witness ==
  /\ last.op = "require_child"
  /\ Acc.cls = "lookup"
  /\ Len(cur.parts) = 2
  /\ ~ValidateNow.ok
  /\ last.out = Raise("KeyError", cur.parts[1])
  /\ last.key # cur.parts[1]

\* Every segment of cur is a str, as the filesystem accessor's are.
StrParts == \A n \in 1..Len(cur.parts) : cur.parts[n].t = "str"

\* C14: is_traversable() returns True or False, never raising, and it is
\* True exactly when keys() on the same path returns and exactly when len()
\* does: for the lookup accessor, for the filesystem accessor (str
\* segments), and for an accessor that only implements keys, where the
\* answer comes from attempting keys().
C14_TraversableIffKeys ==
  (last.op = "is_traversable" /\ (Acc.cls = "path" => StrParts)) =>
    /\ last.out \in {True, False}
    /\ last.out = True <=> call_keys(heap, Acc, cur.parts).ok
    /\ last.out = True <=> call_len(heap, Acc, cur.parts).ok

\* C15: for the lookup accessor stat() never raises and is None exactly
\* when the path does not resolve in the backing structure; exists() is
\* `stat() is not None`, so it is True exactly when the path resolves, which
\* is when an uncached read_value() of the path returns and when validate
\* succeeds.
C15_ExistsIffResolves ==
  /\ last.op = "stat" =>
       /\ last.out.ok
       /\ last.out.val = NoneVal <=> ~Resolvable
  /\ last.op = "exists" =>
       /\ last.out \in {True, False}
       /\ last.out = True <=> accessor_stat(heap, Acc, cur.parts).val # NoneVal
       /\ last.out = True <=> Resolvable
       /\ last.out = True <=> accessor_read(heap, Acc, cur.parts).out.ok
       /\ last.out = True <=> accessor_validate(heap, Acc, cur.parts).ok

\* exists() was True for a path that resolves to a scalar.
C15_Witness ==
  /\ last.op = "exists"
  /\ last.out = True
  /\ Len(cur.parts) = 2
  /\ Node = IntVal(5)

\* C16: for the lookup and the filesystem accessor (str segments and key
\* there), path // key returns a path only when require_child(parts, key)
\* succeeds; the path returned has the segments of path followed by the one
\* segment key, and it exists (validate succeeds and exists() is True on
\* it); when require_child fails, // raises KeyError and gives no path.
C16_FloorDivAppendsExisting ==
  [][(last'.op = "floordiv"
        /\ Acc.cls \in {"lookup", "path"}
        /\ (Acc.cls = "path" => (StrParts /\ last'.key.t = "str"))) =>
       LET key == last'.key
           required == call_require_child(heap, Acc, cur.parts, key)
       IN
       /\ last'.out.ok <=> required.ok
       /\ last'.out.ok =>
            /\ cur'.parts = Append(cur.parts, key)
            /\ call_validate(heap, Acc, cur'.parts).ok
            /\ exists(heap, Acc, cur'.parts) = True
       /\ ~last'.out.ok => (last'.out.exc = "KeyError" /\ cur' = cur)
  ]_vars

\* The value stored under key in the node cur resolves to.
StoredUnder(key) == get_subnode(heap, get_node(heap, Acc.node, cur.parts).val, key).val

\* C17: for a lookup path, path[key] returns the value stored under key in
\* the node the path resolves to when key is a child of that node (`key in
\* path`), and raises KeyError when it is not; get(key, default) returns
\* the same stored value for a child and default for any other key.
C17_SubscriptAndGet ==
  (last.op \in {"getitem", "get"} /\ Acc.cls = "lookup") =>
    LET key == last.key IN
    /\ ContainsNow(key) = True => last.out = Return(StoredUnder(key))
    /\ (ContainsNow(key) = False /\ last.op = "getitem") =>
         (~last.out.ok /\ last.out.exc = "KeyError")
    /\ (ContainsNow(key) = False /\ last.op = "get") => last.out = Return(Default)

\* C18: for a lookup path that resolves to a scalar leaf (a str or int
\* value, under a key or as the root), keys() returns an empty sequence and
\* len() returns 0.
C18_LeafHasNoKeys ==
  (last.op \in {"keys", "len"} /\ Resolvable /\ Node.kind \in {"str", "int"}) =>
    /\ last.op = "keys" => last.out = ReturnKeys(<<>>)
    /\ last.op = "len" => last.out = Return(IntVal(0))

\* The tokens of s: its maximal runs of characters other than sep, as pairs
\* of first and last position.
Runs(s, sep) ==
  {r \in (1..Len(s)) \X (1..Len(s)) :
     /\ r[1] <= r[2]
     /\ \A k \in r[1]..r[2] : s[k] # sep
     /\ (r[1] = 1 \/ s[r[1] - 1] = sep)
     /\ (r[2] = Len(s) \/ s[r[2] + 1] = sep)}

\* The tokens of s other than ".", left to right, as string segments.
RECURSIVE KeptTokens(_, _)
KeptTokens(s, R) ==
  IF R = {} THEN <<>>
  ELSE LET r == CHOOSE r \in R : \A q \in R : r[1] <= q[1]
           x == SubSeq(s, r[1], r[2])
       IN (IF x = <<".">> THEN <<>> ELSE <<StrSeg(x)>>) \o KeptTokens(s, R \ {r})

\* What each argument contributes, in argument order: an integer itself, a
\* string or byte string its kept tokens, a path its segments.
RECURSIVE Canonical(_, _)
Canonical(args, sep) ==
  IF args = <<>> THEN <<>>
  ELSE LET a == Head(args) IN
       (CASE a.t = "int" -> <<a>>
          [] a.t = "path" -> a.parts
          [] OTHER -> KeptTokens(a.s, Runs(a.s, sep)))
       \o Canonical(Tail(args), sep)

ValidArgs(args) == \A j \in 1..Len(args) : args[j].t \in {"str", "int", "bytes", "path"}

\* C19: the constructor turns a list of string, integer, byte-string and
\* path arguments into the segments obtained by splitting every string on
\* the separator, dropping the empty and "." tokens, keeping integers as
\* they are and keeping everything in argument order; a path built again
\* from the segments of a path has the same segments.
C19_Canonicalization ==
  /\ (last.op = "construct" /\ ValidArgs(last.args)) =>
        last.out.ok /\ cur.parts = Canonical(last.args, cur.separator)
  /\ last.op = "from_parts" => last.out.ok /\ cur.parts = last.args

\* The constructor was given "a/./b" and 0 and built a, b, 0.
C19_Witness ==
  /\ last.op = "construct"
  /\ last.args = <<StrSeg(<<"a", "/", ".", "/", "b">>), IntSeg(0)>>
  /\ cur.parts = <<StrSeg(<<"a">>), StrSeg(<<"b">>), IntSeg(0)>>

\* The arguments of the last constructing or joining call.
GivenArgs ==
  CASE last.op \in {"construct", "joinpath"} -> last.args
    [] last.op \in {"truediv", "rtruediv"} -> <<last.key>>
    [] OTHER -> <<>>

RaisedTypeError == ~last.out.ok /\ last.out.exc = "TypeError"

\* C20: a constructor, joinpath or / call with an argument that is not a
\* path, a byte string, a string or an integer raises TypeError.
C20_OtherArgumentsRaise ==
  (\E j \in 1..Len(GivenArgs) :
      GivenArgs[j].t \notin {"path", "bytes", "str", "int"}) => RaisedTypeError

Accepted == {"path", "bytes", "str", "int", "none", "pathlike"}

\* C20 as the code has it: None and os.PathLike arguments are accepted as
\* well, None adding no segment and an os.PathLike the segments of its
\* fspath string; every other argument raises TypeError.
C20_OtherArgumentsAmended ==
  /\ (\E j \in 1..Len(GivenArgs) : GivenArgs[j].t \notin Accepted) => RaisedTypeError
  /\ (last.op = "construct" /\ \A j \in 1..Len(last.args) : last.args[j].t \in Accepted) =>
        last.out.ok /\ cur.parts = Canonical(last.args, cur.separator)

\* joinpath("a", 1.5) raised TypeError.
C20_Witness ==
  /\ last.op = "joinpath"
  /\ last.args = <<StrSeg(<<"a">>), FloatArg>>
  /\ RaisedTypeError

\* No segment of parts holds the separator.
NoSeparator(parts, sep) ==
  \A j \in 1..Len(parts) : parts[j].t = "str" => ~Contains(parts[j].s, sep)

\* C21: a path whose string and integer segments hold no separator, rendered
\* with str() and parsed again with the same separator, has the same
\* segments.
C21_StrRoundTrip ==
  (last.op = "str_reparse" /\ NoSeparator(last.args[1].parts, cur.separator)) =>
     last.out.ok /\ cur.parts = last.args[1].parts

\* C21 as the code has it: the round trip gives back the string segments,
\* and for an integer segment the string of its decimal text.
C21_StrRoundTripAmended ==
  last.op = "str_reparse" =>
     /\ last.out.ok
     /\ Len(cur.parts) = Len(last.args[1].parts)
     /\ \A j \in 1..Len(cur.parts) :
          LET p == last.args[1].parts[j] IN
          cur.parts[j] = IF p.t = "int" THEN StrSeg(int_str(p.i)) ELSE p

\* a/b/-1 was rendered and parsed into a, b, "-1".
C21_Witness ==
  /\ last.op = "str_reparse"
  /\ last.args[1].parts = <<StrSeg(<<"a">>), StrSeg(<<"b">>), IntSeg(-1)>>
  /\ cur.parts = <<StrSeg(<<"a">>), StrSeg(<<"b">>), StrSeg(<<"-", "1">>)>>

\* The path the current one is compared with.
Other == last.args[1]

\* Exactly one of three holds.
ExactlyOne(x, y, z) ==
  (x /\ ~y /\ ~z) \/ (~x /\ y /\ ~z) \/ (~x /\ ~y /\ z)

\* The first position at which the parts of two paths differ holds an
\* integer in a and the string of the same text in b.
IntAgainstItsText(a, b) ==
  \E j \in 1..Len(a.parts) :
    /\ j <= Len(b.parts)
    /\ SubSeq(a.parts, 1, j - 1) = SubSeq(b.parts, 1, j - 1)
    /\ a.parts[j].t = "int"
    /\ b.parts[j] = StrSeg(int_str(a.parts[j].i))

LastSegs(parts, n) == SubSeq(parts, Len(parts) - n + 1, Len(parts))

\* C23: a path has as many parents as segments; parents[i] (counted from
\* 0) is the path without its last i+1 segments, on the same accessor and
\* separator; parents[0] is parent, every further parent is the parent of
\* the one before, the last one is the empty path; the parent of the empty
\* path is the empty path itself.
C23_Parents ==
  LET ps == parents(cur)
      n == Len(cur.parts)
  IN
  /\ Len(ps) = n
  /\ \A i \in 1..n :
       /\ Len(ps[i].parts) = n - i
       /\ ps[i].parts \o LastSegs(cur.parts, i) = cur.parts
       /\ ps[i].separator = cur.separator
       /\ ps[i].accessor = cur.accessor
       /\ ps[i] = parent(IF i = 1 THEN cur ELSE ps[i - 1])
  /\ n > 0 => ps[n].parts = <<>>
  /\ n = 0 => parent(cur) = cur

\* parents[1] of a path of two segments was taken: the empty path.
C23_Witness ==
  /\ last.op = "parents"
  /\ last.key = IntSeg(1)
  /\ cur.parts = <<>>

\* xs is a leading subsequence of ys.
IsPrefix(xs, ys) == Len(xs) <= Len(ys) /\ \A j \in 1..Len(xs) : xs[j] = ys[j]

\* C24: relative_to(*args) returns exactly when is_relative_to(*args) is
\* true, which is when the canonicalized arguments are a leading subsequence
\* of the path's segments; the result holds the remaining segments, so the
\* prefix's segments followed by the result's are the path's; with a prefix
\* that does not match it raises ValueError.
C24_RelativeTo ==
  [][last'.op = "relative_to" =>
       LET rel == is_relative_to(cur, last'.args)
           pfx == parse_args(last'.args, cur.separator)
       IN
       /\ last'.out.ok <=> (rel.ok /\ rel.val)
       /\ (rel.ok /\ rel.val) <=> (pfx.ok /\ IsPrefix(pfx.parts, cur.parts))
       /\ last'.out.ok =>
            /\ Len(cur'.parts) = Len(cur.parts) - Len(pfx.parts)
            /\ pfx.parts \o cur'.parts = cur.parts
       /\ (pfx.ok /\ ~IsPrefix(pfx.parts, cur.parts)) =>
            (~last'.out.ok /\ last'.out.exc = "ValueError" /\ cur' = cur)
  ]_vars

\* relative_to("a") of a/b returned b.
C24_Witness ==
  /\ last.op = "relative_to"
  /\ last.args = <<StrSeg(<<"a">>)>>
  /\ last.out.ok
  /\ cur.parts = <<StrSeg(<<"b">>)>>

\* C25: with_name, with_suffix and relative_to on a path without segments
\* raise, whatever their argument.
C25_EmptyPathFails ==
  [][(cur.parts = <<>> /\ last'.op \in {"with_name", "with_suffix", "relative_to"})
        => ~last'.out.ok]_vars

\* C25 as the code has it: with_name and with_suffix on a path without
\* segments raise ValueError; relative_to on it returns the empty path when
\* its arguments canonicalize to no segment and raises ValueError when they
\* canonicalize to some.
C25_EmptyPathAmended ==
  [][cur.parts = <<>> =>
       /\ last'.op \in {"with_name", "with_suffix"} =>
            (~last'.out.ok /\ last'.out.exc = "ValueError" /\ cur' = cur)
       /\ last'.op = "relative_to" =>
            LET pfx == parse_args(last'.args, cur.separator) IN
            /\ last'.out.ok <=> (pfx.ok /\ pfx.parts = <<>>)
            /\ last'.out.ok => cur'.parts = <<>>
            /\ (pfx.ok /\ pfx.parts # <<>>) => last'.out.exc = "ValueError"
  ]_vars

\* with_name("x") on the empty path raised ValueError.
C25_Witness ==
  /\ last.op = "with_name"
  /\ last.key = StrSeg(<<"x">>)
  /\ cur.parts = <<>>
  /\ ~last.out.ok
  /\ last.out.exc = "ValueError"

\* No segment of the path is empty, is "." or holds the separator.
CanonicalPath(path) ==
  \A j \in 1..Len(path.parts) :
    path.parts[j].t = "str" =>
      /\ path.parts[j].s # <<>>
      /\ path.parts[j].s # <<".">>
      /\ ~Contains(path.parts[j].s, path.separator)

\* C26: the path that /, reversed /, parent, parents, with_name,
\* with_suffix or relative_to returned, and each of its parents, has no
\* segment that is empty, is "." or holds the separator.
C26_SegmentsCanonical ==
  /\ CanonicalPath(cur)
  /\ \A i \in 1..Len(cur.parts) : CanonicalPath(parents(cur)[i])

\* What an uncached read of parts returns from the backing structure.
UncachedRead(parts) ==
  LET r == get_node(heap, Acc.node, parts) IN
  IF r.ok THEN Return(read_node(r.val)) ELSE r

\* C27: over a backing structure that does not change, whatever the
\* enable_cache, disable_cache and clear_cache calls before it, a read
\* returns what an uncached read of the same segments returns; every cache
\* entry holds the value of its own segment sequence, and after a read that
\* failed the cache has no entry for the path.
C27_CacheRefinesRead ==
  /\ last.op = "read_value" => last.out = UncachedRead(cur.parts)
  /\ \A j \in 1..Len(Acc.cache) :
       Return(Acc.cache[j].value) = UncachedRead(Acc.cache[j].key)
  /\ (last.op = "read_value" /\ ~last.out.ok) =>
       CacheIndex(Acc.cache, cur.parts) = 0

\* C30: whatever integer maxsize the last enable_cache was given, a read of
\* a path that resolves returns its value; the eviction loop does not raise
\* from an empty cache.
C30_AnyMaxsizeReads ==
  (last.op = "read_value" /\ Acc.cache_enabled /\ ~Acc.cache_maxsize.none /\ Resolvable) =>
     /\ last.out.ok
     /\ last.out.val = read_node(Node)
     /\ last.out.arg # DictEmpty

\* C28: for the lookup accessor contains(parts, key) has just answered
\* True exactly when validate(parts + [key]) succeeds, also under a str
\* node, a tuple and a negative index.
C28_ContainsAgreesWithValidate ==
  last.op = "contains" =>
    (last.out = True
       <=> accessor_validate(heap, Acc, Append(cur.parts, last.key)).ok)

\* The entry of the disk that the segments of cur name from the base of the
\* filesystem accessor: links and ".." resolved.
Resolved == Locate(<<>>, JoinPath(Acc.node.s, cur.parts).comps, TRUE)

\* The operations that resolve, stat, list or read an entry.
EntryOps == {"read_value", "keys", "len", "validate", "stat", "exists", "is_traversable"}

\* C29: the entry a filesystem path has just resolved, listed, read or
\* found with stat is the base directory or lies below it.
C29_StaysUnderBase ==
  (/\ Acc.cls = "path"
   /\ last.op \in EntryOps
   /\ StrParts
   /\ last.out.ok
   /\ Resolved.ok) => IsPrefix(Acc.node.s, Resolved.loc)

====
